---- MODULE Spec2Model ----
(***************************************************************************)
(* The credential flows of the dashboard API (signup, login, password      *)
(* reset, token refresh) as a state machine over the account records of    *)
(* the Firestore users collection.                                         *)
(*                                                                         *)
(* Every route handler is a sequence of steps, one per awaited record      *)
(* store call; the code between two awaits runs without interruption       *)
(* (one Node.js thread).  Spec runs each handler from its first to its     *)
(* last step as one action (requests served one after the other);          *)
(* SpecConc lets the steps of the requests in flight interleave.           *)
(*                                                                         *)
(* Time is the wall clock in minutes.  Fields of the record that the       *)
(* flows never read (displayName, photoURL, lastLoginAt, createdAt,        *)
(* updatedAt) are left out of the record.                                  *)
(***************************************************************************)
EXTENDS Integers, Sequences, FiniteSets, TLC

\* ---------------------------------------------------------------- bounds
TickMinutes == 10          \* the clock advances in steps of this many minutes
MaxTime == 20              \* the clock stops here
LockTickMinutes == 30      \* SpecLock: the clock's step
LockMaxTime == 60          \* SpecLock: the clock stops here
ConcMaxTime == 10          \* SpecConc: the clock stops here
MaxIds == 2                \* document ids the store can hand out
MaxFailed == 6             \* failed logins counted per account
MaxTokens == 1             \* signed tokens outstanding
GateTickMinutes == 7560    \* SpecGate: the clock's step (three quarters of a session token's life)
GateMaxTime == 15200       \* SpecGate: the clock stops here
GateLimit == 2             \* SpecGate: apiRequestsLimit of the account
GateMaxTokens == 2         \* SpecGate: signed tokens outstanding
OtpTickMinutes == 5        \* SpecOtp: the clock's step (half a code's life)
OtpMaxTime == 15           \* SpecOtp: the clock stops here
OtpMaxTokens == 2          \* SpecOtp: signed tokens outstanding
MaxListed == 4             \* SpecList: documents in the users collection
MaxLimit == 2              \* SpecList: the largest page size asked for
MaxPage == 2               \* SpecList: the largest page number asked for

\* ------------------------------------------------------ program constants
SIGNUP_OTP_MINUTES == 10
LOGIN_OTP_MINUTES == 10
RESET_OTP_MINUTES == 10
LOCK_MINUTES == 30
LOCK_THRESHOLD == 5
MIN_PASSWORD_LENGTH == 8
API_REQUESTS_LIMIT == 1000
JWT_EXPIRES_MINUTES == 10080
OTP_TOKEN_MINUTES == 10

\* ------------------------------------------------------- optional values
\* A field that may be absent holds None or Some(v).  In the data handed to
\* update, a key holds Def(v), or Undef where the code writes `undefined`.
None == << >>
Some(v) == << v >>
Undef == << >>
Def(v) == << v >>

\* ------------------------------------------------------------ input sets
EmailA == << "a", "@", "b", ".", "c" >>
EmailNoDot == << "a", "@", "b" >>
NoEmail == << >>
Emails == { EmailA, EmailNoDot }     \* EmailNoDot never passes initiate: no account has it
DisplayNames == { "", "Ann" }
Codes == { "111111", "222222" }      \* codes a client submits
GenCodes == { "111111" }             \* codes the generator yields
Passwords == { "longenough1", "longenough2" }
PasswordInputs == Passwords \cup { "short" }
Ids == 1 .. MaxIds

VARIABLES
    users,                      \* the users collection: id -> record
    allocated,                  \* ids the store has handed out
    tokens,                     \* every token signed so far
    now,                        \* wall clock, minutes
    ignoreUndefinedProperties,  \* the Firestore client's setting
    reqs,                       \* slot -> request (in flight or answered)
    passwordLogins,             \* history: <<id, otp>> stored by a login whose password verified
    issueLog,                   \* history: who issued each session token
    wrongStreak,                \* history: id -> failed password checks since the last that passed
    overlapped,                 \* history: a request has arrived while another was in flight
    letThrough,                 \* history: requests subscriptionRateLimit has passed on with next()
                                \* (kept where the steps of requests interleave)
    listing                     \* GET /users: the collection read, the query and the response

vars == << users, allocated, tokens, now, ignoreUndefinedProperties, reqs,
           passwordLogins, issueLog, wrongStreak, overlapped, letThrough, listing >>

\* ------------------------------------------------------------ primitives
Min(S) == CHOOSE x \in S : \A y \in S : x <= y

\* /^[^\s@]+@[^\s@]+\.[^\s@]+$/ on a string given as its characters.
emailRegexTest(email) ==
    \E i \in 1 .. Len(email) : \E j \in 1 .. Len(email) :
        /\ email[i] = "@"
        /\ email[j] = "."
        /\ 1 < i
        /\ i + 1 < j
        /\ j < Len(email)
        /\ \A k \in 1 .. Len(email) : k # i => email[k] \notin { "@", " " }

\* bcrypt: the digest of a password, and the check of a password against it.
BcryptHash(password) == << "bcrypt", password >>
BcryptCompare(password, digest) == digest = BcryptHash(password)

hashPassword(password) == BcryptHash(password)

\* A faulty variant: every password passes.
comparePasswordAny(password, hashedPassword) == TRUE

comparePassword(password, hashedPassword) == BcryptCompare(password, hashedPassword)

\* ------------------------------------------------------------ the store
\* getAll with where email == value returns the matches in document-id
\* order; getByEmail takes the first.
getByEmail(st, email) ==
    LET matches == { i \in DOMAIN st : st[i].email = email }
    IN  IF matches = {} THEN None ELSE Some(st[Min(matches)])

getById(st, id) == IF id \in DOMAIN st THEN Some(st[id]) ELSE None

create(st, id, data) ==
    [ i \in DOMAIN st \cup { id } |-> IF i = id THEN data ELSE st[i] ]

\* A faulty variant: the document stays.
deleteNothing(st, id) == st

delete(st, id) == [ i \in DOMAIN st \ { id } |-> st[i] ]

HasUndefined(data) == \E f \in DOMAIN data : data[f] = Undef

Merge(rec, data) ==
    [ f \in DOMAIN rec |->
        IF f \in DOMAIN data /\ data[f] # Undef THEN data[f][1] ELSE rec[f] ]

\* docRef.update: fails on a missing document; with an undefined value in
\* the data the client throws before writing anything, unless it is set to
\* ignore undefined properties, and then it leaves those fields as they are.
update(st, id, data) ==
    IF id \notin DOMAIN st \/ (HasUndefined(data) /\ ~ignoreUndefinedProperties)
    THEN [ ok |-> FALSE, users |-> st ]
    ELSE [ ok |-> TRUE, users |-> [ st EXCEPT ![id] = Merge(@, data) ] ]

\* The record signup/initiate creates.
NewUser(id, email, otp, expiresAt) ==
    [ id |-> id,
      email |-> email,
      role |-> "user",
      isActive |-> FALSE,
      subscriptionPlan |-> "free",
      apiRequestsCount |-> 0,
      apiRequestsLimit |-> API_REQUESTS_LIMIT,
      isEmailVerified |-> FALSE,
      emailVerificationOTP |-> Some(otp),
      emailVerificationExpiresAt |-> Some(expiresAt),
      failedLoginAttempts |-> 0,
      password |-> None,
      loginOTP |-> None,
      loginOTPExpiresAt |-> None,
      passwordResetOTP |-> None,
      passwordResetExpiresAt |-> None,
      lastFailedLoginAt |-> None,
      accountLockedUntil |-> None ]

\* ---------------------------------------------------------------- tokens
NoToken == [ kind |-> "none" ]
Garbage == [ kind |-> "garbage" ]

generateToken(userId, email, role, plan, t) ==
    [ kind |-> "session", userId |-> userId, email |-> email, role |-> role,
      subscriptionPlan |-> plan, iat |-> t, exp |-> t + JWT_EXPIRES_MINUTES ]

generateOTPToken(email, purpose, t) ==
    [ kind |-> "purpose", email |-> email, purpose |-> purpose,
      iat |-> t, exp |-> t + OTP_TOKEN_MINUTES ]

\* jwt.verify: the token carries a signature of this server and is not
\* expired (expired once the clock has reached exp).
\* A faulty variant: the expiry is not checked.
jwtVerifyNoExpiry(signed, token, t) == token \in signed

jwtVerify(signed, token, t) == token \in signed /\ t < token.exp

verifyToken(signed, token, t) == IF jwtVerify(signed, token, t) THEN Some(token) ELSE None

verifyOTPToken(signed, token, t) == IF jwtVerify(signed, token, t) THEN Some(token) ELSE None

isTokenExpired(token, t) ==
    IF token.kind \in { "session", "purpose" } THEN token.exp < t ELSE TRUE

\* ----------------------------------------------------------- EmailService
\* The confirmation mails: accepted is the dispatcher's answer.  A failure
\* is caught in the service, which returns false.
sendEmailVerified(accepted) == [ threw |-> FALSE, sent |-> accepted ]

\* A faulty variant: the failure is thrown to the caller.
sendPasswordSetThrowing(accepted) == [ threw |-> ~accepted, sent |-> accepted ]

sendPasswordSet(accepted) == [ threw |-> FALSE, sent |-> accepted ]

\* -------------------------------------------------------------- requests
\* A request: its route, the step it has reached, its body, the handler's
\* locals (user: the record as read, at: the clock when the data of the
\* next write was computed, genOtp: the code generated) and, once answered
\* (pc = "done"), the response, with the code mailed (mailed) and whether
\* the confirmation mail went out (confirmed), None where none was sent.
NewReq(op, email, otp, password, displayName, token) ==
    [ op |-> op, pc |-> "start", email |-> email, otp |-> otp,
      password |-> password, displayName |-> displayName, token |-> token,
      user |-> None, at |-> 0, genOtp |-> "",
      status |-> 0, message |-> "", userId |-> None, tokenOut |-> NoToken,
      mailed |-> None, confirmed |-> None ]

Idle == [ NewReq("idle", NoEmail, "", "", "", NoToken) EXCEPT !.pc = "idle" ]

\* The response is sent: the handler's locals are gone.
Respond(r, status, message) ==
    [ r EXCEPT !.pc = "done", !.status = status, !.message = message,
               !.user = None, !.at = 0, !.genOtp = "" ]

\* The world a step acts on, and a step's result.
World == [ users |-> users, allocated |-> allocated, tokens |-> tokens,
           passwordLogins |-> passwordLogins, issueLog |-> issueLog,
           wrongStreak |-> wrongStreak, letThrough |-> letThrough ]

Res(w, r) == [ w |-> w, r |-> r ]

\* What a step draws: the code Math.random() yields, whether the mail
\* dispatcher accepts the message, the id the store gives a new document
\* (ids are handed out in increasing order, so of two records with one
\* email getByEmail returns the older).  A draw the request's route never
\* makes is fixed.
Draws(w, r) ==
    LET free == Ids \ w.allocated
        codes == r.op \in { "initiate", "login", "forgotPassword" }
        mails == codes \/ r.op \in { "verifyEmail", "setPassword", "setNewPassword" }
    IN  { [ otp |-> c, mailOk |-> m, id |-> i ] :
            c \in IF codes THEN GenCodes ELSE { "" },
            m \in IF mails THEN BOOLEAN ELSE { TRUE },
            i \in IF r.op = "initiate" /\ free # {} THEN { Min(free) } ELSE { 0 } }

\* --------------------------------------------------- POST /signup/initiate
signupInitiate(w, r, nd, t) ==
    IF r.pc = "start" THEN
        IF r.email = NoEmail \/ r.displayName = ""
        THEN Res(w, Respond(r, 400, "Email and display name are required"))
        ELSE IF ~emailRegexTest(r.email)
        THEN Res(w, Respond(r, 400, "Invalid email format"))
        ELSE IF getByEmail(w.users, r.email) # None
        THEN Res(w, Respond(r, 409, "User already exists"))
        ELSE Res(w, [ r EXCEPT !.pc = "create", !.genOtp = nd.otp, !.at = t ])
    ELSE IF r.pc = "create" THEN
        Res([ w EXCEPT !.users = create(w.users, nd.id,
                          NewUser(nd.id, r.email, r.genOtp, r.at + SIGNUP_OTP_MINUTES)),
                       !.allocated = @ \cup { nd.id } ],
            [ r EXCEPT !.pc = "mail", !.userId = Some(nd.id) ])
    ELSE \* pc = "mail": sendSignupOTP, and the rollback when it fails
        IF nd.mailOk
        THEN Res(w, [ Respond(r, 200, "Verification OTP sent to your email")
                        EXCEPT !.mailed = Some(r.genOtp) ])
        ELSE Res([ w EXCEPT !.users = delete(w.users, r.userId[1]) ],
                 Respond(r, 500, "Failed to send verification email"))

\* ----------------------------------------------- POST /signup/verify-email
verifyEmailOtpMismatch(user, otp) == user.emailVerificationOTP # Some(otp)

verifyEmailOtpExpired(user, t) ==
    user.emailVerificationExpiresAt # None /\ user.emailVerificationExpiresAt[1] < t

signupVerifyEmail(w, r, nd, t) ==
    IF r.pc = "start" THEN
        LET found == getByEmail(w.users, r.email) IN
        IF r.email = NoEmail \/ r.otp = ""
        THEN Res(w, Respond(r, 400, "Email and OTP are required"))
        ELSE IF found = None
        THEN Res(w, Respond(r, 404, "User not found"))
        ELSE IF found[1].isEmailVerified
        THEN Res(w, Respond(r, 400, "Email already verified"))
        ELSE IF verifyEmailOtpMismatch(found[1], r.otp)
        THEN Res(w, Respond(r, 400, "Invalid OTP"))
        ELSE IF verifyEmailOtpExpired(found[1], t)
        THEN Res(w, Respond(r, 400, "OTP has expired"))
        ELSE Res(w, [ r EXCEPT !.pc = "update", !.user = found ])
    ELSE \* pc = "update"
        LET u == update(w.users, r.user[1].id,
                        [ isEmailVerified |-> Def(TRUE),
                          emailVerificationOTP |-> Undef,
                          emailVerificationExpiresAt |-> Undef ])
            mail == sendEmailVerified(nd.mailOk)
        IN
        IF ~u.ok
        THEN Res(w, Respond(r, 500, "Failed to verify email"))
        ELSE IF mail.threw
        THEN Res([ w EXCEPT !.users = u.users ],
                 [ Respond(r, 500, "Failed to verify email")
                     EXCEPT !.confirmed = Some(mail.sent) ])
        ELSE Res([ w EXCEPT !.users = u.users ],
                 [ Respond(r, 200, "Email verified successfully. You can now set your password.")
                     EXCEPT !.userId = Some(r.user[1].id), !.confirmed = Some(mail.sent) ])

\* ----------------------------------------------- POST /signup/set-password
\* A faulty variant: the check of the verified flag is missing.
emailNotVerifiedSkipped(user) == FALSE

emailNotVerified(user) == ~user.isEmailVerified

signupSetPassword(w, r, nd, t) ==
    IF r.pc = "start" THEN
        LET found == getByEmail(w.users, r.email) IN
        IF r.email = NoEmail \/ r.password = ""
        THEN Res(w, Respond(r, 400, "Email and password are required"))
        ELSE IF Len(r.password) < MIN_PASSWORD_LENGTH
        THEN Res(w, Respond(r, 400, "Password must be at least 8 characters long"))
        ELSE IF found = None
        THEN Res(w, Respond(r, 404, "User not found"))
        ELSE IF emailNotVerified(found[1])
        THEN Res(w, Respond(r, 403, "Email must be verified before setting password"))
        ELSE IF found[1].password # None
        THEN Res(w, Respond(r, 400, "Password already set"))
        ELSE Res(w, [ r EXCEPT !.pc = "update", !.user = found ])
    ELSE \* pc = "update"
        LET u == update(w.users, r.user[1].id,
                        [ password |-> Def(Some(hashPassword(r.password))),
                          isActive |-> Def(TRUE) ])
            mail == sendPasswordSet(nd.mailOk)
        IN
        IF ~u.ok
        THEN Res(w, Respond(r, 500, "Failed to set password"))
        ELSE IF mail.threw
        THEN Res([ w EXCEPT !.users = u.users ],
                 [ Respond(r, 500, "Failed to set password")
                     EXCEPT !.confirmed = Some(mail.sent) ])
        ELSE Res([ w EXCEPT !.users = u.users ],
                 [ Respond(r, 200, "Password set successfully. You can now log in.")
                     EXCEPT !.userId = Some(r.user[1].id), !.confirmed = Some(mail.sent) ])

\* ------------------------------------------------------------ POST /login
\* A faulty variant: the lock is never looked at.
isLockedNever(user, t) == FALSE

isLocked(user, t) == user.accountLockedUntil # None /\ user.accountLockedUntil[1] > t

\* A faulty variant: the count is written as 1 whatever was read.
failedLoginUpdateFromOne(user, t) ==
    [ failedLoginAttempts |-> Def(1),
      lastFailedLoginAt |-> Def(Some(t)) ]

\* A faulty variant: the lock is set at the fifth failure only.
failedLoginUpdateLockAtFiveOnly(user, t) ==
    LET newFailedAttempts == user.failedLoginAttempts + 1 IN
    IF newFailedAttempts = LOCK_THRESHOLD
    THEN [ failedLoginAttempts |-> Def(newFailedAttempts),
           lastFailedLoginAt |-> Def(Some(t)),
           accountLockedUntil |-> Def(Some(t + LOCK_MINUTES)) ]
    ELSE [ failedLoginAttempts |-> Def(newFailedAttempts),
           lastFailedLoginAt |-> Def(Some(t)) ]

\* A faulty variant: setting the lock starts the count again.
failedLoginUpdateResetOnLock(user, t) ==
    LET newFailedAttempts == user.failedLoginAttempts + 1 IN
    IF newFailedAttempts >= LOCK_THRESHOLD
    THEN [ failedLoginAttempts |-> Def(0),
           lastFailedLoginAt |-> Def(Some(t)),
           accountLockedUntil |-> Def(Some(t + LOCK_MINUTES)) ]
    ELSE [ failedLoginAttempts |-> Def(newFailedAttempts),
           lastFailedLoginAt |-> Def(Some(t)) ]

\* The data of the update after a failed password check.
failedLoginUpdate(user, t) ==
    LET newFailedAttempts == user.failedLoginAttempts + 1 IN
    IF newFailedAttempts >= LOCK_THRESHOLD
    THEN [ failedLoginAttempts |-> Def(newFailedAttempts),
           lastFailedLoginAt |-> Def(Some(t)),
           accountLockedUntil |-> Def(Some(t + LOCK_MINUTES)) ]
    ELSE [ failedLoginAttempts |-> Def(newFailedAttempts),
           lastFailedLoginAt |-> Def(Some(t)) ]

\* The data of the update that resets the lockout fields.
resetLoginUpdate ==
    [ failedLoginAttempts |-> Def(0),
      lastFailedLoginAt |-> Undef,
      accountLockedUntil |-> Undef ]

\* A faulty variant: an unknown email is answered as the other routes do.
loginUnknownUserNotFound(r) == Respond(r, 404, "User not found")

\* The answer to a login for an email without an account.
loginUnknownUser(r) == Respond(r, 401, "Invalid credentials")

\* The store after the mail with a code just stored has failed: login and
\* forgot-password throw their 500 and undo nothing.
\* A faulty variant: the write of the code is undone.
mailFailureRollsBack(written, before) == before

mailFailureKeeps(written, before) == written

\* A faulty variant: the check of the verified flag is missing.
loginEmailNotVerifiedSkipped(user) == FALSE

loginEmailNotVerified(user) == ~user.isEmailVerified

login(w, r, nd, t) ==
    IF r.pc = "start" THEN
        LET found == getByEmail(w.users, r.email) IN
        IF r.email = NoEmail \/ r.password = ""
        THEN Res(w, Respond(r, 400, "Email and password are required"))
        ELSE IF found = None
        THEN Res(w, loginUnknownUser(r))
        ELSE IF ~found[1].isActive
        THEN Res(w, Respond(r, 403, "Account is inactive"))
        ELSE IF loginEmailNotVerified(found[1])
        THEN Res(w, Respond(r, 403, "Email must be verified before login"))
        ELSE IF found[1].password = None
        THEN Res(w, Respond(r, 403, "Password not set. Please complete your signup."))
        ELSE IF isLocked(found[1], t)
        THEN Res(w, Respond(r, 423, "Account is temporarily locked due to multiple failed attempts"))
        ELSE IF ~comparePassword(r.password, found[1].password[1])
        THEN Res([ w EXCEPT !.wrongStreak[found[1].id] = @ + 1 ],
                 [ r EXCEPT !.pc = "failUpdate", !.user = found, !.at = t ])
        ELSE IF found[1].failedLoginAttempts > 0
        THEN Res([ w EXCEPT !.wrongStreak[found[1].id] = 0 ],
                 [ r EXCEPT !.pc = "resetUpdate", !.user = found ])
        ELSE Res([ w EXCEPT !.wrongStreak[found[1].id] = 0 ],
                 [ r EXCEPT !.pc = "otpUpdate", !.user = found,
                            !.genOtp = nd.otp, !.at = t ])
    ELSE IF r.pc = "failUpdate" THEN
        LET u == update(w.users, r.user[1].id, failedLoginUpdate(r.user[1], r.at)) IN
        IF ~u.ok
        THEN Res(w, Respond(r, 500, "Failed to process login"))
        ELSE Res([ w EXCEPT !.users = u.users ], Respond(r, 401, "Invalid credentials"))
    ELSE IF r.pc = "resetUpdate" THEN
        LET u == update(w.users, r.user[1].id, resetLoginUpdate) IN
        IF ~u.ok
        THEN Res(w, Respond(r, 500, "Failed to process login"))
        ELSE Res([ w EXCEPT !.users = u.users ],
                 [ r EXCEPT !.pc = "otpUpdate", !.genOtp = nd.otp, !.at = t ])
    ELSE \* pc = "otpUpdate": store the login OTP, then sendLoginOTP
        LET u == update(w.users, r.user[1].id,
                        [ loginOTP |-> Def(Some(r.genOtp)),
                          loginOTPExpiresAt |-> Def(Some(r.at + LOGIN_OTP_MINUTES)) ])
            id == r.user[1].id
            verified == BcryptCompare(r.password, r.user[1].password[1])
            w2 == [ w EXCEPT !.users = u.users,
                             !.passwordLogins =
                                 IF verified THEN @ \cup { << id, r.genOtp >> } ELSE @ ]
        IN
        IF ~u.ok
        THEN Res(w, Respond(r, 500, "Failed to process login"))
        ELSE IF ~nd.mailOk
        THEN Res(mailFailureKeeps(w2, w), Respond(r, 500, "Failed to send login OTP"))
        ELSE Res(w2, [ Respond(r, 200, "Login OTP sent to your email")
                         EXCEPT !.userId = Some(id), !.mailed = Some(r.genOtp) ])

\* ------------------------------------------------- POST /login/verify-otp
\* A faulty variant: the code submitted is not compared.
loginOtpMismatchNever(user, otp) == FALSE

loginOtpMismatch(user, otp) == user.loginOTP # Some(otp)

loginOtpExpired(user, t) ==
    user.loginOTPExpiresAt # None /\ user.loginOTPExpiresAt[1] < t

loginVerifyOtp(w, r, nd, t) ==
    IF r.pc = "start" THEN
        LET found == getByEmail(w.users, r.email) IN
        IF r.email = NoEmail \/ r.otp = ""
        THEN Res(w, Respond(r, 400, "Email and OTP are required"))
        ELSE IF found = None
        THEN Res(w, Respond(r, 404, "User not found"))
        ELSE IF ~found[1].isActive
        THEN Res(w, Respond(r, 403, "Account is inactive"))
        ELSE IF loginOtpMismatch(found[1], r.otp)
        THEN Res(w, Respond(r, 400, "Invalid OTP"))
        ELSE IF loginOtpExpired(found[1], t)
        THEN Res(w, Respond(r, 400, "OTP has expired"))
        ELSE Res(w, [ r EXCEPT !.pc = "update", !.user = found ])
    ELSE \* pc = "update": clear the OTP, then sign the session token
        LET user == r.user[1]
            u == update(w.users, user.id,
                        [ loginOTP |-> Undef, loginOTPExpiresAt |-> Undef,
                          lastLoginAt |-> Def(t) ])
            token == generateToken(user.id, user.email, user.role,
                                   user.subscriptionPlan, t)
        IN
        IF ~u.ok
        THEN Res(w, Respond(r, 500, "Failed to verify OTP"))
        ELSE Res([ w EXCEPT !.users = u.users,
                            !.tokens = @ \cup { token },
                            !.issueLog = @ \cup { [ token |-> token, via |-> r.op,
                                                    otp |-> r.otp,
                                                    stored |-> user.loginOTP,
                                                    active |-> u.users[user.id].isActive ] } ],
                 [ Respond(r, 200, "Login successful")
                     EXCEPT !.userId = Some(user.id), !.tokenOut = token ])

\* ------------------------------------------------- POST /forgot-password
forgotPassword(w, r, nd, t) ==
    IF r.pc = "start" THEN
        LET found == getByEmail(w.users, r.email) IN
        IF r.email = NoEmail
        THEN Res(w, Respond(r, 400, "Email is required"))
        ELSE IF found = None
        THEN Res(w, Respond(r, 200, "If an account with this email exists, a password reset OTP has been sent"))
        ELSE IF ~found[1].isActive
        THEN Res(w, Respond(r, 403, "Account is inactive"))
        ELSE Res(w, [ r EXCEPT !.pc = "update", !.user = found,
                               !.genOtp = nd.otp, !.at = t ])
    ELSE \* pc = "update": store the reset OTP, then sendPasswordResetOTP
        LET u == update(w.users, r.user[1].id,
                        [ passwordResetOTP |-> Def(Some(r.genOtp)),
                          passwordResetExpiresAt |-> Def(Some(r.at + RESET_OTP_MINUTES)) ]) IN
        IF ~u.ok
        THEN Res(w, Respond(r, 500, "Failed to process password reset request"))
        ELSE IF ~nd.mailOk
        THEN Res(mailFailureKeeps([ w EXCEPT !.users = u.users ], w),
                 Respond(r, 500, "Failed to send password reset OTP"))
        ELSE Res([ w EXCEPT !.users = u.users ],
                 [ Respond(r, 200, "Password reset OTP sent to your email")
                     EXCEPT !.mailed = Some(r.genOtp) ])

\* ------------------------------------------ POST /reset-password/verify-otp
resetOtpMismatch(user, otp) == user.passwordResetOTP # Some(otp)

resetOtpExpired(user, t) ==
    user.passwordResetExpiresAt # None /\ user.passwordResetExpiresAt[1] < t

\* A faulty variant: the code is used up by the verification.
resetVerifyOtpConsuming(w, r, nd, t) ==
    LET found == getByEmail(w.users, r.email)
        resetToken == generateOTPToken(r.email, "password-reset", t)
    IN
    IF r.email = NoEmail \/ r.otp = ""
    THEN Res(w, Respond(r, 400, "Email and OTP are required"))
    ELSE IF found = None
    THEN Res(w, Respond(r, 404, "User not found"))
    ELSE IF ~found[1].isActive
    THEN Res(w, Respond(r, 403, "Account is inactive"))
    ELSE IF resetOtpMismatch(found[1], r.otp)
    THEN Res(w, Respond(r, 400, "Invalid OTP"))
    ELSE IF resetOtpExpired(found[1], t)
    THEN Res(w, Respond(r, 400, "OTP has expired"))
    ELSE Res([ w EXCEPT !.tokens = @ \cup { resetToken },
                        !.users[found[1].id].passwordResetOTP = None,
                        !.users[found[1].id].passwordResetExpiresAt = None ],
             [ Respond(r, 200, "OTP verified successfully. You can now set a new password.")
                 EXCEPT !.tokenOut = resetToken ])

resetVerifyOtp(w, r, nd, t) ==
    LET found == getByEmail(w.users, r.email)
        resetToken == generateOTPToken(r.email, "password-reset", t)
    IN
    IF r.email = NoEmail \/ r.otp = ""
    THEN Res(w, Respond(r, 400, "Email and OTP are required"))
    ELSE IF found = None
    THEN Res(w, Respond(r, 404, "User not found"))
    ELSE IF ~found[1].isActive
    THEN Res(w, Respond(r, 403, "Account is inactive"))
    ELSE IF resetOtpMismatch(found[1], r.otp)
    THEN Res(w, Respond(r, 400, "Invalid OTP"))
    ELSE IF resetOtpExpired(found[1], t)
    THEN Res(w, Respond(r, 400, "OTP has expired"))
    ELSE Res([ w EXCEPT !.tokens = @ \cup { resetToken } ],
             [ Respond(r, 200, "OTP verified successfully. You can now set a new password.")
                 EXCEPT !.tokenOut = resetToken ])

\* ------------------------------------ POST /reset-password/set-new-password
\* A faulty variant: a token without a purpose claim passes.
isResetTokenOrSession(decoded) ==
    decoded # None /\ (decoded[1].kind = "purpose" => decoded[1].purpose = "password-reset")

\* A faulty variant: the purpose claim is not looked at.
isResetTokenAnyPurpose(decoded) == decoded # None

isResetToken(decoded) ==
    decoded # None /\ decoded[1].kind = "purpose" /\ decoded[1].purpose = "password-reset"

\* A faulty variant: the reset also lifts the lockout.
newPasswordUpdateUnlocking(hashedPassword) ==
    [ password |-> Def(Some(hashedPassword)),
      passwordResetOTP |-> Undef,
      passwordResetExpiresAt |-> Undef,
      failedLoginAttempts |-> Def(0),
      accountLockedUntil |-> Def(None) ]

\* The fields set-new-password hands to userService.update.
newPasswordUpdate(hashedPassword) ==
    [ password |-> Def(Some(hashedPassword)),
      passwordResetOTP |-> Undef,
      passwordResetExpiresAt |-> Undef ]

resetSetNewPassword(w, r, nd, t) ==
    IF r.pc = "start" THEN
        LET decoded == verifyOTPToken(w.tokens, r.token, t)
            found == getByEmail(w.users, decoded[1].email)
        IN
        IF r.token = NoToken \/ r.password = ""
        THEN Res(w, Respond(r, 400, "Reset token and new password are required"))
        ELSE IF Len(r.password) < MIN_PASSWORD_LENGTH
        THEN Res(w, Respond(r, 400, "Password must be at least 8 characters long"))
        ELSE IF ~isResetToken(decoded)
        THEN Res(w, Respond(r, 400, "Invalid or expired reset token"))
        ELSE IF found = None
        THEN Res(w, Respond(r, 404, "User not found"))
        ELSE IF ~found[1].isActive
        THEN Res(w, Respond(r, 403, "Account is inactive"))
        ELSE Res(w, [ r EXCEPT !.pc = "update", !.user = found ])
    ELSE \* pc = "update"
        LET u == update(w.users, r.user[1].id,
                        newPasswordUpdate(hashPassword(r.password)))
            mail == sendPasswordSet(nd.mailOk)
        IN
        IF ~u.ok
        THEN Res(w, Respond(r, 500, "Failed to reset password"))
        ELSE IF mail.threw
        THEN Res([ w EXCEPT !.users = u.users ],
                 [ Respond(r, 500, "Failed to reset password")
                     EXCEPT !.confirmed = Some(mail.sent) ])
        ELSE Res([ w EXCEPT !.users = u.users ],
                 [ Respond(r, 200, "Password reset successfully. You can now log in with your new password.")
                     EXCEPT !.confirmed = Some(mail.sent) ])

\* ------------------------------------------------------- authenticateUser
\* The middleware's verdict on a bearer token: status 0 lets the request
\* through with the identity of the token's claims.  A signed token without
\* a userId claim makes the record lookup throw, which the middleware
\* answers with 401.
\* A faulty variant: the isActive check is missing.
accountInactiveIgnored(user) == FALSE

accountInactive(user) == ~user.isActive

authenticateUser(w, token, t) ==
    LET decodedToken == verifyToken(w.tokens, token, t)
        user == getById(w.users, token.userId)
        deny(status, message) == [ status |-> status, message |-> message ]
    IN
    IF token = NoToken
    THEN deny(401, "No token provided")
    ELSE IF decodedToken = None
    THEN deny(401, "Invalid or expired token")
    ELSE IF isTokenExpired(token, t)
    THEN deny(401, "Token has expired")
    ELSE IF token.kind # "session"
    THEN deny(401, "Authentication failed")
    ELSE IF user = None
    THEN deny(404, "User not found")
    ELSE IF accountInactive(user[1])
    THEN deny(403, "User account is inactive")
    ELSE [ status |-> 0, message |-> "" ]

\* ---------------------------------------------------- POST /refresh-token
\* A faulty variant: the claims are copied from the token presented.
refreshClaimsFromToken(user, decoded) ==
    [ userId |-> decoded.userId, email |-> decoded.email, role |-> decoded.role,
      subscriptionPlan |-> decoded.subscriptionPlan ]

\* The payload of the token refresh-token signs.
refreshClaims(user, decoded) ==
    [ userId |-> user.id, email |-> user.email, role |-> user.role,
      subscriptionPlan |-> user.subscriptionPlan ]

refreshToken(w, r, nd, t) ==
    IF r.pc = "start" THEN
        LET auth == authenticateUser(w, r.token, t) IN
        IF auth.status # 0
        THEN Res(w, Respond(r, auth.status, auth.message))
        ELSE Res(w, [ r EXCEPT !.pc = "handler" ])
    ELSE \* pc = "handler"
        LET user == getById(w.users, r.token.userId)
            payload == refreshClaims(user[1], r.token)
            newToken == generateToken(payload.userId, payload.email, payload.role,
                                      payload.subscriptionPlan, t)
        IN
        IF user = None \/ ~user[1].isActive
        THEN Res(w, Respond(r, 401, "User not found or inactive"))
        ELSE Res([ w EXCEPT !.tokens = @ \cup { newToken },
                            !.issueLog = @ \cup { [ token |-> newToken, via |-> r.op,
                                                    otp |-> "",
                                                    stored |-> None,
                                                    active |-> w.users[user[1].id].isActive ] } ],
                 [ Respond(r, 200, "Token refreshed successfully")
                     EXCEPT !.tokenOut = newToken ])

\* ----------------------------------------------------------- POST /logout
\* A faulty variant: the token presented is revoked.
logoutRevoking(w, r, nd, t) ==
    LET auth == authenticateUser(w, r.token, t) IN
    IF auth.status # 0
    THEN Res(w, Respond(r, auth.status, auth.message))
    ELSE Res([ w EXCEPT !.tokens = @ \ { r.token } ],
             Respond(r, 200, "Logged out successfully"))

logout(w, r, nd, t) ==
    LET auth == authenticateUser(w, r.token, t) IN
    IF auth.status # 0
    THEN Res(w, Respond(r, auth.status, auth.message))
    ELSE Res(w, Respond(r, 200, "Logged out successfully"))

\* ------------------------------------------------------------ middleware
\* req.user as authenticateUser and optionalAuth set it: the token's claims.
requestUser(decodedToken) ==
    [ userId |-> decodedToken.userId, email |-> decodedToken.email,
      role |-> decodedToken.role, subscriptionPlan |-> decodedToken.subscriptionPlan ]

\* authenticateUser where the record store may fail: with storeOk FALSE the
\* awaited getById throws, which the middleware's catch answers with 401.
authenticateUserOn(w, token, t, storeOk) ==
    IF /\ ~storeOk
       /\ token # NoToken
       /\ verifyToken(w.tokens, token, t) # None
       /\ ~isTokenExpired(token, t)
    THEN [ status |-> 401, message |-> "Authentication failed" ]
    ELSE authenticateUser(w, token, t)

\* A faulty variant: the record only has to exist.
optionalAuthAcceptsAnyRecord(user) == user # None

optionalAuthAccepts(user) == user # None /\ user[1].isActive

\* optionalAuth: req.user, or None where the request goes on without one.
\* getById throws on a store failure and on the undefined userId of a
\* purpose token; the catch lets the request through.
optionalAuth(w, token, t, storeOk) ==
    IF token = NoToken
    THEN None
    ELSE IF verifyToken(w.tokens, token, t) = None
    THEN None
    ELSE IF isTokenExpired(token, t)
    THEN None
    ELSE IF ~storeOk \/ token.kind # "session"
    THEN None
    ELSE IF optionalAuthAccepts(getById(w.users, token.userId))
    THEN Some(requestUser(token))
    ELSE None

\* A faulty variant: the hierarchy with two plans swapped.
planHierarchySwapped(plan) ==
    CASE plan = "free" -> 0
      [] plan = "developer" -> 2
      [] plan = "professional" -> 1
      [] plan = "enterprise" -> 3
      [] OTHER -> 0

planHierarchy(plan) ==
    CASE plan = "free" -> 0
      [] plan = "developer" -> 1
      [] plan = "professional" -> 2
      [] plan = "enterprise" -> 3
      [] OTHER -> 0

\* requireSubscription(requiredPlan): status 0 lets the request through.
requireSubscription(reqUser, requiredPlan) ==
    IF reqUser = None
    THEN [ status |-> 401, message |-> "Authentication required" ]
    ELSE IF planHierarchy(reqUser[1].subscriptionPlan) < planHierarchy(requiredPlan)
    THEN [ status |-> 403, message |-> "Higher subscription plan required" ]
    ELSE [ status |-> 0, message |-> "" ]

\* A faulty variant: the request that reaches the limit is let through.
limitExceededOffByOne(user) == user.apiRequestsCount > user.apiRequestsLimit

limitExceeded(user) == user.apiRequestsCount >= user.apiRequestsLimit

\* The error handler: next(error) is answered with the error's status and
\* message.
errorHandler(r, err) == Respond(r, err.status, err.message)

\* A request to a route behind the middleware, with the handler's locals
\* and req.user.  requiredPlan: None, or Some(plan) on a route behind
\* requireSubscription(plan).
GateReq(op, token, requiredPlan) ==
    [ op |-> op, pc |-> "start", email |-> NoEmail, otp |-> "",
      password |-> "", displayName |-> "", token |-> token,
      user |-> None, at |-> 0, genOtp |-> "",
      status |-> 0, message |-> "", userId |-> None, tokenOut |-> NoToken,
      mailed |-> None, confirmed |-> None,
      requiredPlan |-> requiredPlan, reqUser |-> None ]

\* router.get(path, authenticateUser, requireSubscription(plan),
\* subscriptionRateLimit, handler).
protectedRoute(w, r, nd, t) ==
    IF r.pc = "start" THEN
        LET auth == authenticateUserOn(w, r.token, t, nd.storeOk)
            authed == [ r EXCEPT !.reqUser = Some(requestUser(r.token)) ]
            gate == requireSubscription(authed.reqUser, r.requiredPlan[1])
        IN
        IF auth.status # 0
        THEN Res(w, errorHandler(r, auth))
        ELSE IF r.requiredPlan # None /\ gate.status # 0
        THEN Res(w, errorHandler(authed, gate))
        ELSE Res(w, [ authed EXCEPT !.pc = "limit" ])
    ELSE IF r.pc = "limit" THEN \* subscriptionRateLimit: read the account
        LET user == getById(w.users, r.reqUser[1].userId) IN
        IF user = None
        THEN Res(w, errorHandler(r, [ status |-> 404, message |-> "User not found" ]))
        ELSE IF limitExceeded(user[1])
        THEN Res(w, errorHandler(r, [ status |-> 429, message |-> "API request limit exceeded" ]))
        ELSE Res(w, [ r EXCEPT !.pc = "countRead" ])
    ELSE IF r.pc = "countRead" THEN \* updateApiRequestCount: read the account again
        LET user == getById(w.users, r.reqUser[1].userId) IN
        IF user = None
        THEN Res([ w EXCEPT !.letThrough = @ + 1 ], Respond(r, 200, "ok"))
        ELSE Res(w, [ r EXCEPT !.pc = "countWrite", !.user = user ])
    ELSE \* pc = "countWrite": write the count read + 1, then the handler
        LET u == update(w.users, r.user[1].id,
                        [ apiRequestsCount |-> Def(r.user[1].apiRequestsCount + 1) ]) IN
        IF ~u.ok
        THEN Res(w, errorHandler(r, [ status |-> 500, message |-> "Internal Server Error" ]))
        ELSE Res([ w EXCEPT !.users = u.users, !.letThrough = @ + 1 ],
                 Respond(r, 200, "ok"))

\* router.get(path, optionalAuth, handler).
optionalRoute(w, r, nd, t) ==
    Res(w, Respond([ r EXCEPT !.reqUser = optionalAuth(w, r.token, t, nd.storeOk) ],
                   200, "ok"))

\* ------------------------------------------------------------ the router
\* One step of request r: from the request's arrival, or from the return of
\* an awaited store call, to the next store call or the response.
\* ------------------------------------------------------------ GET /users
\* Array.prototype.slice(start, end): a negative index counts from the end,
\* both are clamped to the array, and the result is empty when the clamped
\* start is not before the clamped end.
SliceIndex(len, k) ==
    IF k < 0 THEN (IF len + k < 0 THEN 0 ELSE len + k)
    ELSE IF k > len THEN len ELSE k

ArraySlice(arr, start, end) ==
    LET from == SliceIndex(Len(arr), start)
        to == SliceIndex(Len(arr), end)
    IN  IF from >= to THEN << >>
        ELSE [ k \in 1 .. (to - from) |-> arr[from + k] ]

\* Math.ceil(a / b) for a >= 0 and b > 0.
MathCeilDiv(a, b) == (a + b - 1) \div b

\* getAll(constraints) with where-equals constraints on role and
\* subscriptionPlan: the matching documents in collection order.
getAllWhere(collection, role, subscriptionPlan) ==
    LET Matches(user) ==
            /\ role # None => user.role = role[1]
            /\ subscriptionPlan # None => user.subscriptionPlan = subscriptionPlan[1]
    IN  SelectSeq(collection, Matches)

\* The handler of GET /users for a request that has passed authenticateUser
\* and requireRole(['admin']).
getUsers(collection, query) ==
    LET found == getAllWhere(collection, query.role, query.subscriptionPlan)
        pageSize == query.limit
        currentPage == query.page
        startIndex == (currentPage - 1) * pageSize
        endIndex == startIndex + pageSize
        paginatedUsers == ArraySlice(found, startIndex, pageSize)
    IN  [ users |-> paginatedUsers,
          currentPage |-> currentPage,
          totalPages |-> MathCeilDiv(Len(found), pageSize),
          totalUsers |-> Len(found),
          hasNextPage |-> endIndex < Len(found),
          hasPrevPage |-> currentPage > 1 ]

NoListing == [ collection |-> << >>, query |-> None, response |-> None ]

Step(w, r, nd, t) ==
    CASE r.op = "initiate" -> signupInitiate(w, r, nd, t)
      [] r.op = "verifyEmail" -> signupVerifyEmail(w, r, nd, t)
      [] r.op = "setPassword" -> signupSetPassword(w, r, nd, t)
      [] r.op = "login" -> login(w, r, nd, t)
      [] r.op = "verifyLoginOtp" -> loginVerifyOtp(w, r, nd, t)
      [] r.op = "forgotPassword" -> forgotPassword(w, r, nd, t)
      [] r.op = "verifyResetOtp" -> resetVerifyOtp(w, r, nd, t)
      [] r.op = "setNewPassword" -> resetSetNewPassword(w, r, nd, t)
      [] r.op = "refreshToken" -> refreshToken(w, r, nd, t)
      [] r.op = "logout" -> logout(w, r, nd, t)
      [] r.op = "protected" -> protectedRoute(w, r, nd, t)
      [] r.op = "optional" -> optionalRoute(w, r, nd, t)

\* The handler run from request r's current step to its response.
RECURSIVE Run(_, _, _, _)
Run(w, r, nd, t) ==
    IF r.pc = "done" THEN Res(w, r)
    ELSE LET res == Step(w, r, nd, t) IN Run(res.w, res.r, nd, t)

\* The model's bounds on a world.
WithinBounds(w) ==
    /\ DOMAIN w.users \subseteq Ids
    /\ \A i \in DOMAIN w.users : w.users[i].failedLoginAttempts <= MaxFailed
    /\ Cardinality(w.tokens) <= MaxTokens

Slots == { 1, 2 }

Commit(s, res) ==
    /\ WithinBounds(res.w)
    /\ users' = res.w.users
    /\ allocated' = res.w.allocated
    /\ tokens' = res.w.tokens
    /\ passwordLogins' = res.w.passwordLogins
    /\ issueLog' = res.w.issueLog
    /\ wrongStreak' = res.w.wrongStreak
    /\ letThrough' = res.w.letThrough
    /\ reqs' = [ reqs EXCEPT ![s] = res.r ]
    /\ overlapped' = ( \/ overlapped
                       \/ /\ reqs[s].pc = "idle"
                          /\ \E q \in Slots \ { s } : reqs[q].pc \notin { "idle", "done" } )
    /\ UNCHANGED << now, ignoreUndefinedProperties, listing >>

Init ==
    /\ users = << >>
    /\ allocated = {}
    /\ tokens = {}
    /\ now = 0
    /\ ignoreUndefinedProperties \in BOOLEAN
    /\ reqs = [ s \in Slots |-> Idle ]
    /\ passwordLogins = {}
    /\ issueLog = {}
    /\ wrongStreak = [ i \in Ids |-> 0 ]
    /\ overlapped = FALSE
    /\ letThrough = 0
    /\ listing = NoListing

\* The clock advances between requests and between the steps of requests in
\* flight; tokens that have expired are dropped from the signed set (jwt.verify
\* turns them down like any string this server never signed).
Advance(minutes, horizon) ==
    /\ \A s \in Slots : reqs[s].pc # "done"
    /\ now + minutes <= horizon
    /\ now' = now + minutes
    /\ tokens' = { k \in tokens : now' < k.exp }
    /\ UNCHANGED << users, allocated, ignoreUndefinedProperties, reqs,
                    passwordLogins, issueLog, wrongStreak, overlapped, letThrough, listing >>

Tick == Advance(TickMinutes, MaxTime)

TokenInputs == tokens \cup { NoToken, Garbage }

\* The response of slot s goes out and the slot is free again.
Reply(s) ==
    /\ reqs[s].pc = "done"
    /\ reqs' = [ reqs EXCEPT ![s] = Idle ]
    /\ UNCHANGED << users, allocated, tokens, now, ignoreUndefinedProperties,
                    passwordLogins, issueLog, wrongStreak, overlapped, letThrough, listing >>

\* ------------------------------------------- requests served one at a time
\* Request r arrives at free slot s and its handler runs to the response.
Serve(s, r) == \E nd \in Draws(World, r) : Commit(s, Run(World, r, nd, now))

Initiate ==
    /\ reqs[1].pc = "idle"
    /\ \E email \in Emails, name \in DisplayNames :
        Serve(1, NewReq("initiate", email, "", "", name, NoToken))

VerifyEmail ==
    /\ reqs[1].pc = "idle"
    /\ \E email \in Emails, otp \in Codes :
        Serve(1, NewReq("verifyEmail", email, otp, "", "", NoToken))

SetPassword ==
    /\ reqs[1].pc = "idle"
    /\ \E email \in Emails, password \in PasswordInputs :
        Serve(1, NewReq("setPassword", email, "", password, "", NoToken))

Login ==
    /\ reqs[1].pc = "idle"
    /\ \E email \in Emails, password \in PasswordInputs :
        Serve(1, NewReq("login", email, "", password, "", NoToken))

VerifyLoginOtp ==
    /\ reqs[1].pc = "idle"
    /\ \E email \in Emails, otp \in Codes :
        Serve(1, NewReq("verifyLoginOtp", email, otp, "", "", NoToken))

ForgotPassword ==
    /\ reqs[1].pc = "idle"
    /\ \E email \in Emails :
        Serve(1, NewReq("forgotPassword", email, "", "", "", NoToken))

VerifyResetOtp ==
    /\ reqs[1].pc = "idle"
    /\ \E email \in Emails, otp \in Codes :
        Serve(1, NewReq("verifyResetOtp", email, otp, "", "", NoToken))

SetNewPassword ==
    /\ reqs[1].pc = "idle"
    /\ \E token \in TokenInputs, password \in PasswordInputs :
        Serve(1, NewReq("setNewPassword", NoEmail, "", password, "", token))

RefreshToken ==
    /\ reqs[1].pc = "idle"
    /\ \E token \in TokenInputs :
        Serve(1, NewReq("refreshToken", NoEmail, "", "", "", token))

Logout ==
    /\ reqs[1].pc = "idle"
    /\ \E token \in TokenInputs :
        Serve(1, NewReq("logout", NoEmail, "", "", "", token))

Requests ==
    \/ Initiate
    \/ VerifyEmail
    \/ SetPassword
    \/ Login
    \/ VerifyLoginOtp
    \/ ForgotPassword
    \/ VerifyResetOtp
    \/ SetNewPassword
    \/ RefreshToken
    \/ Logout
    \/ Reply(1)

Next == Tick \/ Requests

Spec == Init /\ [][Next]_vars

\* The same requests with the clock in steps of the lockout window.
LockTick == Advance(LockTickMinutes, LockMaxTime)

NextLock == LockTick \/ Requests

SpecLock == Init /\ [][NextLock]_vars

\* ------------------------------------------------ requests that interleave
\* Request r arrives and runs to its first awaited call.  It takes slot s,
\* the lowest free one (slots carry no meaning).
Begin(s, r) ==
    /\ reqs[s].pc = "idle"
    /\ \A q \in Slots : q < s => reqs[q].pc # "idle"
    /\ \E nd \in Draws(World, r) : Commit(s, Step(World, r, nd, now))

\* The awaited call of the request in slot s returns and the handler runs on
\* to its next awaited call or to the response.
Resume(s) ==
    /\ reqs[s].pc \notin { "idle", "done" }
    /\ \E nd \in Draws(World, reqs[s]) : Commit(s, Step(World, reqs[s], nd, now))

ConcInitiate ==
    /\ \E s \in Slots : reqs[s].pc = "idle"
    /\ \E s \in Slots, email \in Emails, name \in DisplayNames :
        Begin(s, NewReq("initiate", email, "", "", name, NoToken))

ConcVerifyEmail ==
    /\ \E s \in Slots : reqs[s].pc = "idle"
    /\ \E s \in Slots, email \in Emails, otp \in Codes :
        Begin(s, NewReq("verifyEmail", email, otp, "", "", NoToken))

ConcSetPassword ==
    /\ \E s \in Slots : reqs[s].pc = "idle"
    /\ \E s \in Slots, email \in Emails, password \in PasswordInputs :
        Begin(s, NewReq("setPassword", email, "", password, "", NoToken))

ConcResume == \E s \in Slots : Resume(s)

ConcReply == \E s \in Slots : Reply(s)

ConcTick == Advance(TickMinutes, ConcMaxTime)

NextConc ==
    \/ ConcTick
    \/ ConcInitiate
    \/ ConcVerifyEmail
    \/ ConcSetPassword
    \/ ConcResume
    \/ ConcReply

SpecConc == Init /\ [][NextConc]_vars

\* ------------------------------------ requests behind the middleware
\* The routes that take a token, served one at a time against an account
\* as administration and billing can leave it (any role and plan, active or
\* deactivated, its request count at the limit or one below, or deleted) and a token
\* signed earlier (a session token with any claims, or a purpose token of
\* any purpose).
Plans == { "free", "developer", "professional", "enterprise" }

Roles == { "user", "admin" }

Purposes == { "signup", "login", "password-reset" }

GateAccounts ==
    { [ NewUser(1, EmailA, "111111", SIGNUP_OTP_MINUTES) EXCEPT
            !.isEmailVerified = TRUE,
            !.password = Some(hashPassword("longenough1")),
            !.isActive = active,
            !.role = role,
            !.subscriptionPlan = plan,
            !.apiRequestsCount = count,
            !.apiRequestsLimit = GateLimit ] :
        active \in BOOLEAN, role \in Roles, plan \in Plans,
        count \in GateLimit - 1 .. GateLimit }

GateTokens ==
    { generateToken(1, EmailA, role, plan, 0) : role \in Roles, plan \in Plans }
        \cup { generateOTPToken(EmailA, purpose, 0) : purpose \in Purposes }

GateInit ==
    /\ users \in { << >> } \cup { create(<< >>, 1, account) : account \in GateAccounts }
    /\ allocated = { 1 }
    /\ tokens \in { {} } \cup { { k } : k \in GateTokens }
    /\ now = 0
    /\ ignoreUndefinedProperties \in BOOLEAN
    /\ reqs = [ s \in Slots |-> Idle ]
    /\ passwordLogins = {}
    /\ issueLog = {}
    /\ wrongStreak = [ i \in Ids |-> 0 ]
    /\ overlapped = FALSE
    /\ letThrough = 0
    /\ listing = NoListing

\* The clock advances; every token signed stays a possible input.
GateTick ==
    /\ \A s \in Slots : reqs[s].pc # "done"
    /\ now + GateTickMinutes <= GateMaxTime
    /\ now' = now + GateTickMinutes
    /\ UNCHANGED << users, allocated, tokens, ignoreUndefinedProperties, reqs,
                    passwordLogins, issueLog, wrongStreak, overlapped, letThrough, listing >>

GateDraws(r) ==
    { [ otp |-> "", mailOk |-> m, id |-> 0, storeOk |-> ok ] :
        m \in IF r.op = "setNewPassword" THEN BOOLEAN ELSE { TRUE },
        ok \in IF r.op \in { "protected", "optional" } THEN BOOLEAN ELSE { TRUE } }

GateServe(s, r) ==
    \E nd \in GateDraws(r) :
        LET res == Run(World, r, nd, now) IN
        /\ Cardinality(res.w.tokens) <= GateMaxTokens
        /\ users' = res.w.users
        /\ tokens' = res.w.tokens
        /\ issueLog' = res.w.issueLog
        /\ reqs' = [ reqs EXCEPT ![s] = res.r ]
        /\ UNCHANGED << allocated, now, ignoreUndefinedProperties,
                        passwordLogins, wrongStreak, overlapped, letThrough,
                        listing >>

GateProtected ==
    /\ reqs[1].pc = "idle"
    /\ \E token \in TokenInputs, plan \in { None } \cup { Some(m) : m \in Plans } :
        GateServe(1, GateReq("protected", token, plan))

GateOptional ==
    /\ reqs[1].pc = "idle"
    /\ \E token \in TokenInputs :
        GateServe(1, GateReq("optional", token, None))

GateRefreshToken ==
    /\ reqs[1].pc = "idle"
    /\ \E token \in TokenInputs :
        GateServe(1, NewReq("refreshToken", NoEmail, "", "", "", token))

GateLogout ==
    /\ reqs[1].pc = "idle"
    /\ \E token \in TokenInputs :
        GateServe(1, NewReq("logout", NoEmail, "", "", "", token))

GateSetNewPassword ==
    /\ reqs[1].pc = "idle"
    /\ \E token \in TokenInputs, password \in PasswordInputs :
        GateServe(1, NewReq("setNewPassword", NoEmail, "", password, "", token))

GateReply == Reply(1)

NextGate ==
    \/ GateTick
    \/ GateProtected
    \/ GateOptional
    \/ GateRefreshToken
    \/ GateLogout
    \/ GateSetNewPassword
    \/ GateReply

SpecGate == GateInit /\ [][NextGate]_vars

\* ------------------------------------------- the code cycles of an account
\* Login and password reset for one account that has finished signup,
\* served one at a time, where the generator yields either code.
OtpAccount ==
    [ NewUser(1, EmailA, "111111", SIGNUP_OTP_MINUTES) EXCEPT
        !.isEmailVerified = TRUE,
        !.password = Some(hashPassword("longenough1")),
        !.isActive = TRUE ]

OtpInit ==
    /\ users = create(<< >>, 1, OtpAccount)
    /\ allocated = { 1 }
    /\ tokens = {}
    /\ now = 0
    /\ ignoreUndefinedProperties \in BOOLEAN
    /\ reqs = [ s \in Slots |-> Idle ]
    /\ passwordLogins = {}
    /\ issueLog = {}
    /\ wrongStreak = [ i \in Ids |-> 0 ]
    /\ overlapped = FALSE
    /\ letThrough = 0
    /\ listing = NoListing

OtpDraws(r) ==
    LET codes == r.op \in { "login", "forgotPassword" }
        mails == codes \/ r.op = "setNewPassword"
    IN  { [ otp |-> c, mailOk |-> m, id |-> 0 ] :
            c \in IF codes THEN Codes ELSE { "" },
            m \in IF mails THEN BOOLEAN ELSE { TRUE } }

OtpServe(s, r) ==
    \E nd \in OtpDraws(r) :
        LET res == Run(World, r, nd, now) IN
        /\ Cardinality(res.w.tokens) <= OtpMaxTokens
        /\ users' = res.w.users
        /\ tokens' = res.w.tokens
        /\ passwordLogins' = res.w.passwordLogins
        /\ issueLog' = res.w.issueLog
        /\ reqs' = [ reqs EXCEPT ![s] = res.r ]
        /\ UNCHANGED << allocated, now, ignoreUndefinedProperties, wrongStreak,
                        overlapped, letThrough, listing >>

OtpLogin ==
    /\ reqs[1].pc = "idle"
    /\ OtpServe(1, NewReq("login", EmailA, "", "longenough1", "", NoToken))

OtpVerifyLoginOtp ==
    /\ reqs[1].pc = "idle"
    /\ \E otp \in Codes :
        OtpServe(1, NewReq("verifyLoginOtp", EmailA, otp, "", "", NoToken))

OtpForgotPassword ==
    /\ reqs[1].pc = "idle"
    /\ OtpServe(1, NewReq("forgotPassword", EmailA, "", "", "", NoToken))

OtpVerifyResetOtp ==
    /\ reqs[1].pc = "idle"
    /\ \E otp \in Codes :
        OtpServe(1, NewReq("verifyResetOtp", EmailA, otp, "", "", NoToken))

OtpSetNewPassword ==
    /\ reqs[1].pc = "idle"
    /\ \E token \in TokenInputs :
        OtpServe(1, NewReq("setNewPassword", NoEmail, "", "longenough1", "", token))

OtpReply == Reply(1)

OtpTick == Advance(OtpTickMinutes, OtpMaxTime)

NextOtp ==
    \/ OtpTick
    \/ OtpLogin
    \/ OtpVerifyLoginOtp
    \/ OtpForgotPassword
    \/ OtpVerifyResetOtp
    \/ OtpSetNewPassword
    \/ OtpReply

SpecOtp == OtpInit /\ [][NextOtp]_vars

\* ------------------------------------- password reset of a locked account
\* The password reset flow for an account that a login at minute 0 may have
\* left a login OTP, that five failed logins at minute 0 may have locked,
\* and that may hold a session token signed at minute 0.
LockedAccount(account) ==
    [ account EXCEPT !.failedLoginAttempts = LOCK_THRESHOLD,
                     !.lastFailedLoginAt = Some(0),
                     !.accountLockedUntil = Some(LOCK_MINUTES) ]

LoginPendingAccount ==
    [ OtpAccount EXCEPT !.loginOTP = Some("111111"),
                        !.loginOTPExpiresAt = Some(LOGIN_OTP_MINUTES) ]

ResetAccounts ==
    { OtpAccount, LoginPendingAccount,
      LockedAccount(OtpAccount), LockedAccount(LoginPendingAccount) }

ResetInit ==
    /\ users \in { create(<< >>, 1, account) : account \in ResetAccounts }
    /\ allocated = { 1 }
    /\ tokens \in { {}, { generateToken(1, EmailA, OtpAccount.role,
                                         OtpAccount.subscriptionPlan, 0) } }
    /\ now = 0
    /\ ignoreUndefinedProperties \in BOOLEAN
    /\ reqs = [ s \in Slots |-> Idle ]
    /\ passwordLogins = {}
    /\ issueLog = {}
    /\ wrongStreak = [ i \in Ids |-> 0 ]
    /\ overlapped = FALSE
    /\ letThrough = 0
    /\ listing = NoListing

ResetSetNewPassword ==
    /\ reqs[1].pc = "idle"
    /\ \E token \in TokenInputs, password \in Passwords :
        OtpServe(1, NewReq("setNewPassword", NoEmail, "", password, "", token))

NextReset ==
    \/ OtpTick
    \/ OtpForgotPassword
    \/ OtpVerifyResetOtp
    \/ ResetSetNewPassword
    \/ OtpReply

SpecReset == ResetInit /\ [][NextReset]_vars

\* ------------------------------------------------- logins that interleave
\* Logins and login-code verifications for one account that has finished
\* signup, the steps of the requests in flight interleaving.  An account gets through signup only
\* where the store client ignores undefined values (verify-email's update
\* throws otherwise), so that is the client's setting here.
LoginConcInit ==
    /\ users = create(<< >>, 1, OtpAccount)
    /\ allocated = { 1 }
    /\ tokens = {}
    /\ now = 0
    /\ ignoreUndefinedProperties = TRUE
    /\ reqs = [ s \in Slots |-> Idle ]
    /\ passwordLogins = {}
    /\ issueLog = {}
    /\ wrongStreak = [ i \in Ids |-> 0 ]
    /\ overlapped = FALSE
    /\ letThrough = 0
    /\ listing = NoListing

ConcLogin ==
    /\ \E s \in Slots : reqs[s].pc = "idle"
    /\ \E s \in Slots, password \in Passwords :
        Begin(s, NewReq("login", EmailA, "", password, "", NoToken))

ConcVerifyLoginOtp ==
    /\ \E s \in Slots : reqs[s].pc = "idle"
    /\ \E s \in Slots, otp \in Codes :
        Begin(s, NewReq("verifyLoginOtp", EmailA, otp, "", "", NoToken))

NextLoginConc ==
    \/ ConcLogin
    \/ ConcVerifyLoginOtp
    \/ ConcResume
    \/ ConcReply

SpecLoginConc == LoginConcInit /\ [][NextLoginConc]_vars

\* ------------------------------- quota-guarded requests, steps interleaved
\* Requests to a route behind subscriptionRateLimit for one active account
\* that has one request left of its limit, the awaited store calls of the
\* requests in flight interleaving.
QuotaAccount ==
    [ OtpAccount EXCEPT !.apiRequestsCount = GateLimit - 1,
                        !.apiRequestsLimit = GateLimit ]

QuotaInit ==
    /\ users = create(<< >>, 1, QuotaAccount)
    /\ allocated = { 1 }
    /\ tokens = { generateToken(1, EmailA, QuotaAccount.role,
                                QuotaAccount.subscriptionPlan, 0) }
    /\ now = 0
    /\ ignoreUndefinedProperties \in BOOLEAN
    /\ reqs = [ s \in Slots |-> Idle ]
    /\ passwordLogins = {}
    /\ issueLog = {}
    /\ wrongStreak = [ i \in Ids |-> 0 ]
    /\ overlapped = FALSE
    /\ letThrough = 0
    /\ listing = NoListing

\* A request arrives at free slot s and its middleware runs up to the first
\* awaited store call.
QuotaBegin(s, r) ==
    /\ reqs[s].pc = "idle"
    /\ \A q \in Slots : q < s => reqs[q].pc # "idle"
    /\ \E nd \in GateDraws(r) : Commit(s, Step(World, r, nd, now))

\* The awaited store call of the request in slot s returns.
QuotaResume(s) ==
    /\ reqs[s].pc \notin { "idle", "done" }
    /\ \E nd \in GateDraws(reqs[s]) : Commit(s, Step(World, reqs[s], nd, now))

ConcProtected ==
    /\ \E s \in Slots : reqs[s].pc = "idle"
    /\ \E s \in Slots, token \in TokenInputs,
          plan \in { None } \cup { Some(m) : m \in Plans } :
        QuotaBegin(s, GateReq("protected", token, plan))

ConcQuotaResume == \E s \in Slots : QuotaResume(s)

NextQuotaConc ==
    \/ ConcProtected
    \/ ConcQuotaResume
    \/ ConcReply

SpecQuotaConc == QuotaInit /\ [][NextQuotaConc]_vars

\* ---------------------------------------------------- the admin listing
\* GET /users over a users collection of up to MaxListed documents (users
\* and admins on the plan signup gives), for every filter, page size and
\* page number asked for.
ListedPlans == { "free", "developer" }

Collections ==
    UNION { { [ k \in 1 .. n |-> [ id |-> k, role |-> roles[k],
                                   subscriptionPlan |-> "free" ] ] :
                roles \in [ 1 .. n -> Roles ] } :
            n \in 0 .. MaxListed }

Queries ==
    [ role : { None } \cup { Some(role) : role \in Roles },
      subscriptionPlan : { None } \cup { Some(plan) : plan \in ListedPlans },
      limit : 1 .. MaxLimit,
      page : 1 .. MaxPage ]

ListInit ==
    /\ users = << >>
    /\ allocated = {}
    /\ tokens = {}
    /\ now = 0
    /\ ignoreUndefinedProperties = FALSE
    /\ reqs = [ s \in Slots |-> Idle ]
    /\ passwordLogins = {}
    /\ issueLog = {}
    /\ wrongStreak = [ i \in Ids |-> 0 ]
    /\ overlapped = FALSE
    /\ letThrough = 0
    /\ listing \in { [ NoListing EXCEPT !.collection = c ] : c \in Collections }

GetUsers ==
    /\ \E query \in Queries :
        listing' = [ listing EXCEPT !.query = Some(query),
                                    !.response = Some(getUsers(listing.collection, query)) ]
    /\ UNCHANGED << users, allocated, tokens, now, ignoreUndefinedProperties, reqs,
                    passwordLogins, issueLog, wrongStreak, overlapped, letThrough >>

NextList == GetUsers

SpecList == ListInit /\ [][NextList]_vars

\* ------------------------------------------------------------ properties
\* This step answers the request in slot s, a request to route op.
Answered(s, op) ==
    /\ reqs[s].pc # "done"
    /\ reqs'[s].pc = "done"
    /\ reqs'[s].op = op

\* The account the request in slot s names, as the store held it before
\* this step.
Named(s) == getByEmail(users, reqs'[s].email)

Usable(u) == u.isActive /\ u.isEmailVerified /\ u.password # None

\* Where an account stands in signup: 0 pending, 1 verified without a
\* password, 2 active; 9 for a record that is none of these.
Stage(u) ==
    IF ~u.isEmailVerified /\ ~u.isActive /\ u.password = None THEN 0
    ELSE IF u.isEmailVerified /\ ~u.isActive /\ u.password = None THEN 1
    ELSE IF u.isEmailVerified /\ u.isActive /\ u.password # None THEN 2
    ELSE 9

\* C1: a session token is issued only by login/verify-otp, for a submitted
\* code equal to the account's stored login OTP, a code that a login with
\* the right password stored for that account, or by refresh-token for an
\* account that is active; no other route answers with a session token.
C1_SessionTokenIssuers ==
    /\ \A k \in tokens : k.kind = "session" => \E e \in issueLog : e.token = k
    /\ \A s \in Slots :
        reqs[s].pc = "done" /\ reqs[s].tokenOut.kind = "session" =>
            /\ reqs[s].op \in { "verifyLoginOtp", "refreshToken" }
            /\ \E e \in issueLog : e.token = reqs[s].tokenOut /\ e.via = reqs[s].op
    /\ \A e \in issueLog :
        \/ /\ e.via = "verifyLoginOtp"
           /\ e.stored = Some(e.otp)
           /\ << e.token.userId, e.otp >> \in passwordLogins
        \/ /\ e.via = "refreshToken"
           /\ e.active

\* Both routes have issued a session token.
C1_Witness ==
    /\ \E e \in issueLog : e.via = "verifyLoginOtp"
    /\ \E e \in issueLog : e.via = "refreshToken"

\* C2: the fifth failed password check in a row sets accountLockedUntil to
\* the time of that check + 30 minutes, and a login for an account whose
\* lock has not run out is answered 423 and writes nothing, whatever the
\* password.
C2_LockoutAfterFiveFailures ==
    [][ /\ \A i \in DOMAIN users :
            wrongStreak[i] = 4 /\ wrongStreak'[i] = 5 =>
                i \in DOMAIN users' /\ users'[i].accountLockedUntil = Some(now + 30)
        /\ Answered(1, "login") =>
            ( ( /\ Named(1) # None
                /\ Usable(Named(1)[1])
                /\ Named(1)[1].accountLockedUntil # None
                /\ now < Named(1)[1].accountLockedUntil[1] )
              => reqs'[1].status = 423 /\ users' = users )
      ]_vars

\* A login with the right password is answered 423 on an account that five
\* failures in a row have locked.
C2_Witness ==
    /\ reqs[1].pc = "done"
    /\ reqs[1].op = "login"
    /\ reqs[1].status = 423
    /\ \E i \in DOMAIN users :
        /\ users[i].email = reqs[1].email
        /\ wrongStreak[i] = 5
        /\ users[i].accountLockedUntil = Some(users[i].lastFailedLoginAt[1] + 30)
        /\ now < users[i].accountLockedUntil[1]
        /\ BcryptCompare(reqs[1].password, users[i].password[1])

\* C3: a login with the right password on an account whose lock has run out
\* succeeds and leaves failedLoginAttempts 0 and accountLockedUntil and
\* lastFailedLoginAt absent (the mail dispatcher accepting the message).
C3_LoginAfterLockoutClears ==
    [][ Answered(1, "login") =>
            ( ( /\ Named(1) # None
                /\ Usable(Named(1)[1])
                /\ Named(1)[1].accountLockedUntil # None
                /\ Named(1)[1].accountLockedUntil[1] <= now
                /\ BcryptCompare(reqs'[1].password, Named(1)[1].password[1])
                /\ reqs'[1].message # "Failed to send login OTP" )
              => /\ reqs'[1].status = 200
                 /\ users'[Named(1)[1].id].failedLoginAttempts = 0
                 /\ users'[Named(1)[1].id].accountLockedUntil = None
                 /\ users'[Named(1)[1].id].lastFailedLoginAt = None )
      ]_vars

\* C4: every record is pending, verified without a password, or active (so
\* an active account is verified and has a password); a record is created
\* pending and moves one stage forward at a time, never back.
C4_SignupStages ==
    /\ [](\A i \in DOMAIN users : Stage(users[i]) \in { 0, 1, 2 })
    /\ [][ /\ \A i \in DOMAIN users \cap DOMAIN users' :
                Stage(users'[i]) \in { Stage(users[i]), Stage(users[i]) + 1 }
           /\ \A i \in DOMAIN users' \ DOMAIN users : Stage(users'[i]) = 0
           /\ \A i \in DOMAIN users \ DOMAIN users' : Stage(users[i]) = 0
         ]_vars

\* An account has gone through the three stages: it is active, its email
\* verified, its password set by set-password.
C4_Witness ==
    \E i \in DOMAIN users :
        /\ Stage(users[i]) = 2
        /\ users[i].emailVerificationExpiresAt # None

\* The stored code and expiry a verifying route compares with.
StoredOtp(op, u) ==
    CASE op = "verifyEmail" -> << u.emailVerificationOTP, u.emailVerificationExpiresAt >>
      [] op = "verifyLoginOtp" -> << u.loginOTP, u.loginOTPExpiresAt >>
      [] op = "verifyResetOtp" -> << u.passwordResetOTP, u.passwordResetExpiresAt >>

\* C5: verifyEmail, verifyLoginOtp and verifyResetOtp accept a code (go on
\* past the OTP checks: the answer is 200, or 500 from the write after them)
\* only if the stored code is present and equal to it, the expiry is
\* present, and now < expiry.
C5_OtpAcceptedOnlyBeforeExpiry ==
    [][ \A op \in { "verifyEmail", "verifyLoginOtp", "verifyResetOtp" } :
            Answered(1, op) /\ reqs'[1].status \in { 200, 500 } =>
                /\ Named(1) # None
                /\ StoredOtp(op, Named(1)[1])[1] = Some(reqs'[1].otp)
                /\ StoredOtp(op, Named(1)[1])[2] # None
                /\ now < StoredOtp(op, Named(1)[1])[2][1]
      ]_vars

\* C6: a verifyLoginOtp that succeeds leaves loginOTP and loginOTPExpiresAt
\* absent, so the code cannot be used a second time.
C6_LoginOtpSingleUse ==
    [][ Answered(1, "verifyLoginOtp") /\ reqs'[1].status = 200 =>
            /\ users'[reqs'[1].userId[1]].loginOTP = None
            /\ users'[reqs'[1].userId[1]].loginOTPExpiresAt = None
      ]_vars

\* C7: setPassword (with a password of 8 characters or more) for an account
\* not yet verified is answered 403 and writes nothing; for an account that
\* has a password it is answered 409 and writes nothing.
C7_SetPasswordForbiddenThenConflict ==
    [][ Answered(1, "setPassword") /\ Len(reqs'[1].password) >= 8 /\ Named(1) # None =>
            /\ ~Named(1)[1].isEmailVerified => reqs'[1].status = 403 /\ users' = users
            /\ Named(1)[1].password # None => reqs'[1].status = 409 /\ users' = users
      ]_vars

C9_OneAccountPerEmail ==
    \A i \in DOMAIN users : \A j \in DOMAIN users :
        i # j => users[i].email # users[j].email

\* C10: of the setPassword requests for one account that are in flight
\* together, at most one is answered 200.
C10_SetPasswordOnce ==
    \A s \in Slots : \A q \in Slots :
        ( /\ s # q
          /\ reqs[s].pc = "done" /\ reqs[s].op = "setPassword" /\ reqs[s].status = 200
          /\ reqs[q].pc = "done" /\ reqs[q].op = "setPassword" /\ reqs[q].status = 200 )
        => reqs[s].userId # reqs[q].userId

\* C11: forgotPassword for an email without an account and for the email of
\* an inactive account get the same answer (200 and the generic message),
\* and neither writes to the store nor sends mail.
C11_ForgotPasswordInactiveAsUnknown ==
    [][ Answered(1, "forgotPassword") /\ (Named(1) = None \/ ~Named(1)[1].isActive) =>
            /\ reqs'[1].status = 200
            /\ reqs'[1].message = "If an account with this email exists, a password reset OTP has been sent"
            /\ reqs'[1].mailed = None
            /\ users' = users
      ]_vars

\* C12: every forgotPassword answered 200 carries the same generic message,
\* whether or not the email has an account.
C12_ForgotPasswordGenericMessage ==
    [][ Answered(1, "forgotPassword") /\ reqs'[1].status = 200 =>
            reqs'[1].message = "If an account with this email exists, a password reset OTP has been sent"
      ]_vars

\* C13: a login for an email without an account and a login with a wrong
\* password for an active, unlocked account are both answered 401 with the
\* message "Invalid credentials".
C13_LoginSameAnswerUnknownOrWrong ==
    [][ Answered(1, "login") =>
            ( ( \/ Named(1) = None
                \/ /\ Usable(Named(1)[1])
                   /\ ~isLocked(Named(1)[1], now)
                   /\ ~BcryptCompare(reqs'[1].password, Named(1)[1].password[1]) )
              => reqs'[1].status = 401 /\ reqs'[1].message = "Invalid credentials" )
      ]_vars

\* A login with a wrong password for an active, unlocked account has been
\* answered 401, where a login for an email without an account is answered
\* 401 as well.
C13_Witness ==
    /\ reqs[1].pc = "done"
    /\ reqs[1].op = "login"
    /\ reqs[1].status = 401
    /\ \E i \in DOMAIN users :
        /\ users[i].email = reqs[1].email
        /\ Usable(users[i])
        /\ wrongStreak[i] = 1
        /\ ~BcryptCompare(reqs[1].password, users[i].password[1])
    /\ getByEmail(users, EmailNoDot) = None

\* A token this server signed as a session token, not yet expired.
ValidSession(token) == token \in tokens /\ token.kind = "session" /\ now < token.exp

\* C14: setNewPassword changes an account only on a signed, unexpired
\* purpose token whose purpose is password-reset; a signed, unexpired
\* purpose token with purpose login or signup is answered 400 and no field
\* of any account changes.
C14_ResetTokenPurpose ==
    [][ Answered(1, "setNewPassword") =>
            /\ users' # users =>
                /\ reqs'[1].token \in tokens
                /\ now < reqs'[1].token.exp
                /\ reqs'[1].token.kind = "purpose"
                /\ reqs'[1].token.purpose = "password-reset"
            /\ ( /\ reqs'[1].token \in tokens
                 /\ reqs'[1].token.kind = "purpose"
                 /\ reqs'[1].token.purpose \in { "login", "signup" } )
               => reqs'[1].status = 400 /\ users' = users
      ]_vars

\* setNewPassword with a password long enough and a signed, unexpired
\* purpose token of purpose login, for an active account, answered 400.
C14_Witness ==
    /\ reqs[1].pc = "done"
    /\ reqs[1].op = "setNewPassword"
    /\ reqs[1].status = 400
    /\ Len(reqs[1].password) >= 8
    /\ reqs[1].token \in tokens
    /\ reqs[1].token.kind = "purpose"
    /\ reqs[1].token.purpose = "login"
    /\ now < reqs[1].token.exp
    /\ 1 \in DOMAIN users
    /\ users[1].isActive
    /\ ignoreUndefinedProperties

C16_AuthenticateDecisions ==
    /\ [](\A token \in TokenInputs :
            LET verdict == authenticateUser(World, token, now) IN
            IF ~ValidSession(token) THEN verdict.status = 401
            ELSE IF getById(users, token.userId) = None THEN verdict.status = 404
            ELSE IF ~getById(users, token.userId)[1].isActive THEN verdict.status = 403
            ELSE verdict.status = 0)
    /\ [][ Answered(1, "protected") =>
            /\ ~ValidSession(reqs'[1].token) => reqs'[1].status = 401
            /\ reqs'[1].reqUser # None =>
                /\ ValidSession(reqs'[1].token)
                /\ getById(users, reqs'[1].token.userId) # None
                /\ getById(users, reqs'[1].token.userId)[1].isActive
                /\ reqs'[1].reqUser = Some([ userId |-> reqs'[1].token.userId,
                                             email |-> reqs'[1].token.email,
                                             role |-> reqs'[1].token.role,
                                             subscriptionPlan |-> reqs'[1].token.subscriptionPlan ])
         ]_vars

\* A request with a valid session token whose account is gone, answered 404.
C16_Witness ==
    /\ reqs[1].pc = "done"
    /\ reqs[1].op = "protected"
    /\ ValidSession(reqs[1].token)
    /\ users = << >>
    /\ reqs[1].status = 404
    /\ reqs[1].reqUser = None

\* C17: optionalAuth sets req.user exactly when authenticateUser lets the
\* same request through, to the same identity, also when the record store
\* fails; a route behind it never turns a request down.
C17_OptionalAuthAgrees ==
    /\ [](\A token \in TokenInputs, storeOk \in BOOLEAN :
            optionalAuth(World, token, now, storeOk) =
                IF authenticateUserOn(World, token, now, storeOk).status = 0
                THEN Some(requestUser(token))
                ELSE None)
    /\ [][ Answered(1, "optional") => reqs'[1].status = 200 ]_vars

\* Behind optionalAuth a request with a valid token has gone through with
\* the identity, and a request with the token of an inactive account would
\* go through without one.
C17_Witness ==
    /\ reqs[1].pc = "done"
    /\ reqs[1].op = "optional"
    /\ reqs[1].status = 200
    /\ reqs[1].reqUser # None
    /\ reqs[1].reqUser = Some(requestUser(reqs[1].token))
    /\ \E token \in tokens : optionalAuth(World, token, now, FALSE) = None

\* The rank of a plan: free < developer < professional < enterprise.
Rank(plan) ==
    CASE plan = "free" -> 0
      [] plan = "developer" -> 1
      [] plan = "professional" -> 2
      [] plan = "enterprise" -> 3

\* C18: behind requireSubscription(m) an authenticated request with plan p
\* is answered 403 if and only if rank(p) < rank(m).
C18_RequireSubscriptionRank ==
    [][ Answered(1, "protected") /\ reqs'[1].requiredPlan # None /\ reqs'[1].reqUser # None =>
            ( reqs'[1].status = 403
                <=> Rank(reqs'[1].reqUser[1].subscriptionPlan) < Rank(reqs'[1].requiredPlan[1]) )
      ]_vars

\* A developer-plan request to a route that requires professional has been
\* answered 403.
C18_Witness ==
    /\ reqs[1].pc = "done"
    /\ reqs[1].op = "protected"
    /\ reqs[1].reqUser # None
    /\ reqs[1].reqUser[1].subscriptionPlan = "developer"
    /\ reqs[1].requiredPlan = Some("professional")
    /\ reqs[1].status = 403
    /\ reqs[1].message = "Higher subscription plan required"

\* C19: an authenticated request that reaches subscriptionRateLimit, no
\* other request in flight, is answered 429 with apiRequestsCount unchanged
\* if the count has reached the limit; otherwise it goes through and the
\* stored count is one higher.
C19_QuotaCountsOne ==
    [][ ( /\ Answered(1, "protected")
          /\ reqs'[1].reqUser # None
          /\ reqs'[1].message # "Higher subscription plan required" ) =>
            LET id == reqs'[1].reqUser[1].userId IN
            IF users[id].apiRequestsCount >= users[id].apiRequestsLimit
            THEN reqs'[1].status = 429 /\ users' = users
            ELSE /\ reqs'[1].status = 200
                 /\ users' = [ users EXCEPT ![id].apiRequestsCount = @ + 1 ]
      ]_vars

\* A request has gone through and brought the count to the limit.
C19_Witness ==
    /\ reqs[1].pc = "done"
    /\ reqs[1].op = "protected"
    /\ reqs[1].status = 200
    /\ 1 \in DOMAIN users
    /\ users[1].apiRequestsCount = users[1].apiRequestsLimit

\* C20: refresh-token signs a token only for an account that exists and is
\* active at the call, with the record's role and plan as claims.
C20_RefreshUsesCurrentRecord ==
    [][ Answered(1, "refreshToken") =>
            /\ reqs'[1].status = 200 <=> reqs'[1].tokenOut.kind = "session"
            /\ tokens' # tokens => reqs'[1].status = 200
            /\ reqs'[1].status = 200 =>
                LET account == getById(users, reqs'[1].token.userId) IN
                /\ account # None
                /\ account[1].isActive
                /\ reqs'[1].tokenOut.userId = account[1].id
                /\ reqs'[1].tokenOut.role = account[1].role
                /\ reqs'[1].tokenOut.subscriptionPlan = account[1].subscriptionPlan
                /\ tokens' = tokens \cup { reqs'[1].tokenOut }
      ]_vars

\* A refresh has signed a token whose role and plan differ from those of
\* the token presented.
C20_Witness ==
    /\ reqs[1].pc = "done"
    /\ reqs[1].op = "refreshToken"
    /\ reqs[1].status = 200
    /\ reqs[1].tokenOut.role # reqs[1].token.role
    /\ reqs[1].tokenOut.subscriptionPlan # reqs[1].token.subscriptionPlan
    /\ reqs[1].tokenOut.subscriptionPlan = users[1].subscriptionPlan

\* C21: logout changes no state, and a session token that authenticates
\* keeps authenticating over every step, a logout with it included, as long
\* as it has not expired and its account is present and active.
C21_LogoutChangesNothing ==
    [][ /\ Answered(1, "logout") =>
            /\ users' = users
            /\ tokens' = tokens
            /\ allocated' = allocated
            /\ reqs'[1].status = 200 =>
                    authenticateUser(World', reqs'[1].token, now').status = 0
        /\ \A token \in tokens :
            ( /\ authenticateUser(World, token, now).status = 0
              /\ now' < token.exp
              /\ getById(users', token.userId) # None
              /\ getById(users', token.userId)[1].isActive )
            => authenticateUser(World', token, now').status = 0
      ]_vars

\* A logout has been answered 200 some time after the token was signed, and
\* the token it presented still authenticates.
C21_Witness ==
    /\ reqs[1].pc = "done"
    /\ reqs[1].op = "logout"
    /\ reqs[1].status = 200
    /\ reqs[1].token.iat < now
    /\ authenticateUser(World, reqs[1].token, now).status = 0

\* C22: with every mail accepted and no code expired, initiate for a fresh
\* email, verifyEmail with the code issued, setPassword with a password of
\* 8 characters or more, login with that password and verifyLoginOtp with
\* the stored login code are each answered 200; the account is active after
\* setPassword, login returns no token, and verifyLoginOtp returns a session
\* token with the account's id and email, role user and plan free.
C22_SignupThenLogin ==
    [][ /\ ( /\ Answered(1, "initiate")
              /\ Named(1) = None
              /\ emailRegexTest(reqs'[1].email)
              /\ reqs'[1].displayName # ""
              /\ reqs'[1].message # "Failed to send verification email" )
            => reqs'[1].status = 200
        /\ ( /\ Answered(1, "verifyEmail")
              /\ Named(1) # None
              /\ Stage(Named(1)[1]) = 0
              /\ Named(1)[1].emailVerificationOTP = Some(reqs'[1].otp)
              /\ now < Named(1)[1].emailVerificationExpiresAt[1] )
            => /\ reqs'[1].status = 200
               /\ users'[Named(1)[1].id].isEmailVerified
        /\ ( /\ Answered(1, "setPassword")
              /\ Len(reqs'[1].password) >= 8
              /\ Named(1) # None
              /\ Stage(Named(1)[1]) = 1 )
            => /\ reqs'[1].status = 200
               /\ Usable(users'[Named(1)[1].id])
        /\ ( /\ Answered(1, "login")
              /\ Named(1) # None
              /\ Usable(Named(1)[1])
              /\ Named(1)[1].failedLoginAttempts = 0
              /\ BcryptCompare(reqs'[1].password, Named(1)[1].password[1])
              /\ reqs'[1].message # "Failed to send login OTP" )
            => /\ reqs'[1].status = 200
               /\ reqs'[1].tokenOut = NoToken
               /\ users'[Named(1)[1].id].loginOTP = reqs'[1].mailed
               /\ reqs'[1].mailed # None
        /\ ( /\ Answered(1, "verifyLoginOtp")
              /\ Named(1) # None
              /\ Usable(Named(1)[1])
              /\ Named(1)[1].loginOTP = Some(reqs'[1].otp)
              /\ now < Named(1)[1].loginOTPExpiresAt[1] )
            => /\ reqs'[1].status = 200
               /\ reqs'[1].tokenOut.kind = "session"
               /\ reqs'[1].tokenOut.userId = Named(1)[1].id
               /\ reqs'[1].tokenOut.email = reqs'[1].email
               /\ reqs'[1].tokenOut.role = "user"
               /\ reqs'[1].tokenOut.subscriptionPlan = "free"
      ]_vars

\* The account records an administrator's edit of record i can leave: the
\* three flags of signup set or unset.
Edited(i) ==
    { [ users[i] EXCEPT !.isActive = a, !.isEmailVerified = v, !.password = p ] :
        a \in BOOLEAN, v \in BOOLEAN, p \in { None, Some(hashPassword("longenough1")) } }

\* C23: login gets as far as the password check only for an account that
\* is active, verified, has a password and is not locked; a login turned
\* down because the account is missing, inactive, unverified, without a
\* password or locked changes no record and sends no mail.
C23_LoginGate ==
    /\ [](\A i \in DOMAIN users : \A rec \in Edited(i) : \A password \in Passwords :
            LET w == [ World EXCEPT !.users[i] = rec ]
                r == NewReq("login", rec.email, "", password, "", NoToken)
                res == login(w, r, [ otp |-> "111111", mailOk |-> TRUE, id |-> 0 ], now)
            IN  /\ res.r.pc # "done" <=> Usable(rec) /\ ~isLocked(rec, now)
                /\ res.r.pc = "done" =>
                    /\ res.w = w
                    /\ res.r.mailed = None
                    /\ res.r.status \in { 403, 423 })
    /\ [][ Answered(1, "login") /\ reqs'[1].email # NoEmail /\ reqs'[1].password # "" =>
            /\ ( \/ wrongStreak' # wrongStreak
                 \/ reqs'[1].status \in { 200, 500 }
                 \/ reqs'[1].status = 401 /\ Named(1) # None )
               => /\ Named(1) # None
                  /\ Usable(Named(1)[1])
                  /\ ~isLocked(Named(1)[1], now)
            /\ ( \/ Named(1) = None
                 \/ ~Usable(Named(1)[1])
                 \/ isLocked(Named(1)[1], now) )
               => /\ users' = users
                  /\ passwordLogins' = passwordLogins
                  /\ wrongStreak' = wrongStreak
                  /\ reqs'[1].mailed = None
                  /\ reqs'[1].status \in { 401, 403, 423 }
         ]_vars

\* A login with the right password for an account verified but not yet
\* active has been turned down with no record changed.
C23_Witness ==
    /\ reqs[1].pc = "done"
    /\ reqs[1].op = "login"
    /\ reqs[1].status = 403
    /\ reqs[1].mailed = None
    /\ \E i \in DOMAIN users :
        /\ users[i].email = reqs[1].email
        /\ Stage(users[i]) = 1
        /\ users[i].failedLoginAttempts = 0
        /\ users[i].loginOTP = None

\* C24: failedLoginAttempts changes only in a login for the account, and
\* goes back to 0 only in a login whose password check passed; the step
\* that sets the lock counts one more and does not start the count again,
\* and the clock, verifyLoginOtp, forgotPassword, verifyResetOtp and
\* setNewPassword leave the count as it is.
C24_FailedAttemptsResetOnlyByLogin ==
    [][ \A i \in DOMAIN users \cap DOMAIN users' :
            /\ users'[i].failedLoginAttempts # users[i].failedLoginAttempts =>
                /\ Answered(1, "login")
                /\ Named(1) # None
                /\ Named(1)[1].id = i
            /\ users'[i].failedLoginAttempts < users[i].failedLoginAttempts =>
                /\ users'[i].failedLoginAttempts = 0
                /\ BcryptCompare(reqs'[1].password, users[i].password[1])
            /\ ( /\ users'[i].accountLockedUntil # users[i].accountLockedUntil
                 /\ users'[i].accountLockedUntil # None )
               => users'[i].failedLoginAttempts = users[i].failedLoginAttempts + 1
      ]_vars

\* setNewPassword has succeeded for an account whose lock has run out, and
\* the account's count still stands at the five failures that set the lock.
C24_Witness ==
    /\ reqs[1].pc = "done"
    /\ reqs[1].op = "setNewPassword"
    /\ reqs[1].status = 200
    /\ \E i \in DOMAIN users :
        /\ users[i].email = reqs[1].token.email
        /\ users[i].failedLoginAttempts = 5
        /\ users[i].accountLockedUntil # None
        /\ users[i].accountLockedUntil[1] <= now

\* The codes verifyLoginOtp and verifyResetOtp would accept for the account
\* of an email in the current state.
LoginCodesIn(w, email, t) ==
    { c \in Codes :
        loginVerifyOtp(w, NewReq("verifyLoginOtp", email, c, "", "", NoToken),
                       [ otp |-> "", mailOk |-> TRUE, id |-> 0 ], t).r.pc = "update" }

AcceptedLoginCodes(email) == LoginCodesIn(World, email, now)

ResetCodesIn(w, email, t) ==
    { c \in Codes :
        resetVerifyOtp(w, NewReq("verifyResetOtp", email, c, "", "", NoToken),
                       [ otp |-> "", mailOk |-> TRUE, id |-> 0 ], t).r.status = 200 }

AcceptedResetCodes(email) == ResetCodesIn(World, email, now)

\* C25: at any time an account has at most one login code and at most one
\* reset code that would be accepted; login and forgotPassword put their
\* new code in the place of the stored one, and verifyLoginOtp and
\* verifyResetOtp turn down every code that is not the stored one, the code
\* of an earlier cycle included, whether or not that code has expired.
C25_OneLiveCodePerKind ==
    /\ [](\A i \in DOMAIN users :
            /\ Cardinality(AcceptedLoginCodes(users[i].email)) <= 1
            /\ Cardinality(AcceptedResetCodes(users[i].email)) <= 1)
    /\ [][ /\ Answered(1, "login") /\ reqs'[1].status = 200 =>
                users'[reqs'[1].userId[1]].loginOTP = reqs'[1].mailed
           /\ Answered(1, "forgotPassword") /\ reqs'[1].mailed # None =>
                Named(1) # None /\ users'[Named(1)[1].id].passwordResetOTP = reqs'[1].mailed
           /\ ( /\ Answered(1, "verifyLoginOtp")
                /\ Named(1) # None
                /\ Named(1)[1].isActive
                /\ Named(1)[1].loginOTP # Some(reqs'[1].otp) )
              => /\ reqs'[1].status = 400
                 /\ reqs'[1].tokenOut = NoToken
                 /\ users' = users
           /\ ( /\ Answered(1, "verifyResetOtp")
                /\ Named(1) # None
                /\ Named(1)[1].isActive
                /\ Named(1)[1].passwordResetOTP # Some(reqs'[1].otp) )
              => /\ reqs'[1].status = 400
                 /\ reqs'[1].tokenOut = NoToken
                 /\ tokens' = tokens
         ]_vars

\* Two logins have stored different codes for the account, and
\* verifyLoginOtp with the earlier one, less than 10 minutes old, has been
\* turned down.
C25_Witness ==
    /\ reqs[1].pc = "done"
    /\ reqs[1].op = "verifyLoginOtp"
    /\ reqs[1].status = 400
    /\ reqs[1].message = "Invalid OTP"
    /\ now < LOGIN_OTP_MINUTES
    /\ \E i \in DOMAIN users :
        /\ users[i].email = reqs[1].email
        /\ << i, reqs[1].otp >> \in passwordLogins
        /\ users[i].loginOTP # None
        /\ users[i].loginOTP # Some(reqs[1].otp)
        /\ << i, users[i].loginOTP[1] >> \in passwordLogins

\* C26: a verifyResetOtp that succeeds changes no record and returns a
\* purpose token with purpose password-reset for the email submitted; a
\* reset code that would be accepted is still accepted after every step
\* that is not the answer of a forgotPassword or setNewPassword, as long as
\* the clock has not reached its expiry.
C26_VerifyResetOtpKeepsCode ==
    [][ /\ Answered(1, "verifyResetOtp") /\ reqs'[1].status = 200 =>
            /\ users' = users
            /\ reqs'[1].tokenOut = [ kind |-> "purpose", email |-> reqs'[1].email,
                                     purpose |-> "password-reset", iat |-> now,
                                     exp |-> now + 10 ]
            /\ reqs'[1].tokenOut \in tokens'
            /\ reqs'[1].otp \in ResetCodesIn(World', reqs'[1].email, now')
        /\ \A i \in DOMAIN users : \A c \in AcceptedResetCodes(users[i].email) :
            ( /\ ~Answered(1, "forgotPassword")
              /\ ~Answered(1, "setNewPassword")
              /\ now' < users[i].passwordResetExpiresAt[1] )
            => c \in ResetCodesIn(World', users[i].email, now')
      ]_vars

\* verifyResetOtp has succeeded for a code that an earlier verifyResetOtp,
\* whose token is still outstanding, had verified already.
C26_Witness ==
    /\ reqs[1].pc = "done"
    /\ reqs[1].op = "verifyResetOtp"
    /\ reqs[1].status = 200
    /\ reqs[1].tokenOut.iat = now
    /\ users[1].passwordResetOTP = Some(reqs[1].otp)
    /\ \E k \in tokens :
        /\ k.kind = "purpose"
        /\ k.purpose = "password-reset"
        /\ k.iat < now
        /\ users[1].passwordResetExpiresAt[1] - RESET_OTP_MINUTES <= k.iat

\* C28: a login whose password check fails on an account with
\* failedLoginAttempts = n is answered 401 and changes the record in exactly
\* this: failedLoginAttempts = n + 1, lastFailedLoginAt = now, and
\* accountLockedUntil = now + 30 minutes if and only if n + 1 >= 5; so the
\* first failure after a lock has run out (n >= 5) locks the account again.
C28_FailedCheckUpdate ==
    [][ \A i \in DOMAIN users :
            Answered(1, "login") /\ wrongStreak'[i] = wrongStreak[i] + 1 =>
                LET n == users[i].failedLoginAttempts IN
                /\ reqs'[1].status = 401
                /\ users' = [ users EXCEPT
                                ![i].failedLoginAttempts = n + 1,
                                ![i].lastFailedLoginAt = Some(now),
                                ![i].accountLockedUntil =
                                    IF n + 1 >= 5 THEN Some(now + 30) ELSE @ ]
      ]_vars

\* A wrong password after the first lock had run out has brought the count
\* to 6 and locked the account again, for 30 minutes from that failure.
C28_Witness ==
    /\ reqs[1].pc = "done"
    /\ reqs[1].op = "login"
    /\ reqs[1].status = 401
    /\ \E i \in DOMAIN users :
        /\ users[i].email = reqs[1].email
        /\ users[i].failedLoginAttempts = 6
        /\ users[i].lastFailedLoginAt = Some(now)
        /\ now >= 30
        /\ users[i].accountLockedUntil = Some(now + 30)

\* C30: where verifyEmail, setPassword or setNewPassword got as far as its
\* confirmation mail, the answer is 200 and the change is in the store,
\* whether the mail went out or failed: isEmailVerified is true after
\* verifyEmail, and the password is the one submitted after setPassword and
\* setNewPassword.
C30_ConfirmationMailBestEffort ==
    [][ /\ Answered(1, "verifyEmail") /\ reqs'[1].confirmed # None =>
            /\ reqs'[1].status = 200
            /\ users'[Named(1)[1].id].isEmailVerified
        /\ Answered(1, "setPassword") /\ reqs'[1].confirmed # None =>
            /\ reqs'[1].status = 200
            /\ users'[Named(1)[1].id].isActive
            /\ users'[Named(1)[1].id].password = Some(BcryptHash(reqs'[1].password))
        /\ Answered(1, "setNewPassword") /\ reqs'[1].confirmed # None =>
            /\ reqs'[1].status = 200
            /\ getByEmail(users', reqs'[1].token.email)[1].password
                    = Some(BcryptHash(reqs'[1].password))
      ]_vars

\* setNewPassword has been answered 200 with the new password stored though
\* its confirmation mail failed.
C30_Witness ==
    /\ reqs[1].pc = "done"
    /\ reqs[1].op = "setNewPassword"
    /\ reqs[1].status = 200
    /\ reqs[1].confirmed = Some(FALSE)
    /\ reqs[1].password = "longenough2"
    /\ getByEmail(users, reqs[1].token.email)[1].password = Some(BcryptHash("longenough2"))

\* No request is between its arrival and its response.
Quiescent == \A s \in Slots : reqs[s].pc \in { "idle", "done" }

\* C27: the store update that brings failedLoginAttempts from above 0 back
\* to 0 after a password check that passed is the update that stores the
\* new login code and its expiry, so no state shows the count reset with
\* the new code not yet stored.
C27_ResetWithOtpInOneUpdate ==
    [][ \A i \in DOMAIN users :
            users[i].failedLoginAttempts > 0 /\ users'[i].failedLoginAttempts = 0 =>
                /\ users'[i].loginOTP # None
                /\ users'[i].loginOTPExpiresAt = Some(now + 10)
      ]_vars

C31_NoRollbackOutsideInitiate ==
    [][ /\ Answered(1, "login") /\ reqs'[1].message = "Failed to send login OTP" =>
            LET u == users'[Named(1)[1].id] IN
            /\ reqs'[1].status = 500
            /\ u.loginOTP # None
            /\ u.loginOTPExpiresAt = Some(now + 10)
            /\ u.failedLoginAttempts = 0
            /\ u.loginOTP[1] \in LoginCodesIn(World', reqs'[1].email, now')
        /\ Answered(1, "forgotPassword")
              /\ reqs'[1].message = "Failed to send password reset OTP" =>
            LET u == users'[Named(1)[1].id] IN
            /\ reqs'[1].status = 500
            /\ u.passwordResetOTP # None
            /\ u.passwordResetExpiresAt = Some(now + 10)
            /\ u.passwordResetOTP[1] \in ResetCodesIn(World', reqs'[1].email, now')
      ]_vars

\* A login with the right password after a failed one has been answered 500
\* on the mail, with the count back at 0 and the new code stored.
C31_Witness ==
    /\ reqs[1].pc = "done"
    /\ reqs[1].op = "login"
    /\ reqs[1].status = 500
    /\ reqs[1].message = "Failed to send login OTP"
    /\ \E i \in DOMAIN users :
        /\ users[i].email = reqs[1].email
        /\ users[i].lastFailedLoginAt # None
        /\ users[i].failedLoginAttempts = 0
        /\ users[i].loginOTP # None
        /\ users[i].loginOTPExpiresAt = Some(now + 10)

\* C32: verifyLoginOtp signs no session token for an account whose
\* accountLockedUntil is in the future.
C32_NoTokenWhileLocked ==
    [][ ( /\ Answered(1, "verifyLoginOtp")
          /\ Named(1) # None
          /\ isLocked(Named(1)[1], now) )
        => /\ reqs'[1].tokenOut = NoToken
           /\ tokens' = tokens
      ]_vars

\* C33: once setNewPassword has succeeded with a token, a setNewPassword
\* that presents the same token next is turned down and leaves the
\* password as it is.
C33_ResetTokenSingleUse ==
    [][ Answered(1, "setNewPassword") /\ reqs'[1].status = 200 =>
            \A password \in Passwords :
                LET again == Run(World',
                                 NewReq("setNewPassword", NoEmail, "", password, "",
                                        reqs'[1].token),
                                 [ otp |-> "", mailOk |-> TRUE, id |-> 0 ], now')
                IN  /\ again.r.status # 200
                    /\ again.w.users = users'
      ]_vars

\* C34: authenticateUser and optionalAuth attach no identity for a purpose
\* token, whatever its purpose, and the routes behind authenticateUser turn
\* it down; setNewPassword turns down a session token and changes nothing.
C34_TokenClassesApart ==
    /\ [](\A token \in tokens : token.kind = "purpose" =>
            /\ authenticateUser(World, token, now).status # 0
            /\ \A storeOk \in BOOLEAN : optionalAuth(World, token, now, storeOk) = None)
    /\ [][ /\ \A op \in { "protected", "refreshToken", "logout" } :
                Answered(1, op) /\ reqs'[1].token.kind = "purpose" =>
                    /\ reqs'[1].status = 401
                    /\ tokens' = tokens
           /\ \A op \in { "protected", "optional" } :
                Answered(1, op) /\ reqs'[1].token.kind = "purpose" =>
                    reqs'[1].reqUser = None
           /\ Answered(1, "setNewPassword") /\ reqs'[1].token.kind = "session" =>
                /\ reqs'[1].status = 400
                /\ users' = users
         ]_vars

\* setNewPassword with a password long enough and a valid session token of
\* an active account has been answered 400.
C34_Witness ==
    /\ reqs[1].pc = "done"
    /\ reqs[1].op = "setNewPassword"
    /\ ValidSession(reqs[1].token)
    /\ Len(reqs[1].password) >= 8
    /\ reqs[1].status = 400
    /\ reqs[1].message = "Invalid or expired reset token"
    /\ 1 \in DOMAIN users
    /\ users[1].isActive
    /\ users[1].email = reqs[1].token.email

\* C35: of two verifyLoginOtp requests with the same code for one account
\* that were in flight together, at most one is answered with a session
\* token.
C35_OneTokenPerInterleavedCode ==
    overlapped =>
        \A s \in Slots : \A q \in Slots :
            ( /\ s # q
              /\ reqs[s].pc = "done" /\ reqs[s].op = "verifyLoginOtp"
              /\ reqs[q].pc = "done" /\ reqs[q].op = "verifyLoginOtp"
              /\ reqs[s].email = reqs[q].email
              /\ reqs[s].otp = reqs[q].otp
              /\ reqs[s].tokenOut.kind = "session" )
            => reqs[q].tokenOut.kind # "session"

\* A pending account whose signup code has run out at time t: a code is
\* valid while t is before its expiry.
PendingExpired(u, t) ==
    /\ ~u.isEmailVerified
    /\ u.emailVerificationExpiresAt # None
    /\ u.emailVerificationExpiresAt[1] <= t

\* C36: a pending account whose signup OTP has expired never becomes
\* verified: its record stays, isEmailVerified and isActive stay false and
\* no step stores another signup OTP or expiry for it; an initiate for its
\* email (well formed) is answered 409, a verifyEmail is not answered 200,
\* a forgotPassword is answered 403, none of them writing.
C36_ExpiredPendingStaysPending ==
    [][ /\ \A i \in DOMAIN users :
            PendingExpired(users[i], now) =>
                /\ i \in DOMAIN users'
                /\ ~users'[i].isEmailVerified
                /\ ~users'[i].isActive
                /\ users'[i].emailVerificationOTP = users[i].emailVerificationOTP
                /\ users'[i].emailVerificationExpiresAt = users[i].emailVerificationExpiresAt
                /\ PendingExpired(users'[i], now')
        /\ \A op \in { "initiate", "verifyEmail", "forgotPassword" } :
            ( /\ Answered(1, op)
              /\ Named(1) # None
              /\ PendingExpired(Named(1)[1], now) )
            => /\ users' = users
               /\ op = "initiate" /\ reqs'[1].displayName # "" => reqs'[1].status = 409
               /\ op = "verifyEmail" => reqs'[1].status # 200
               /\ op = "forgotPassword" => reqs'[1].status = 403
      ]_vars

\* C37: however the steps of quota-guarded requests for one account
\* interleave, subscriptionRateLimit lets through at most apiRequestsLimit
\* minus the initial apiRequestsCount requests, and the stored
\* apiRequestsCount never exceeds apiRequestsLimit.
C37_QuotaHoldsUnderInterleaving ==
    /\ letThrough <= QuotaAccount.apiRequestsLimit - QuotaAccount.apiRequestsCount
    /\ \A i \in DOMAIN users : users[i].apiRequestsCount <= users[i].apiRequestsLimit

\* C38: an account whose accountLockedUntil is present has
\* failedLoginAttempts of 5 or more.
C38_LockedImpliesFiveFailures ==
    \A i \in DOMAIN users :
        users[i].accountLockedUntil # None => users[i].failedLoginAttempts >= 5

\* The fields set-new-password may write.
ResetFields == { "password", "passwordResetOTP", "passwordResetExpiresAt" }

C40_ListingPage ==
    listing.response # None =>
        LET query == listing.query[1]
            filtered == getAllWhere(listing.collection, query.role,
                                    query.subscriptionPlan)
            s == query.limit
            p == query.page
            first == (p - 1) * s
            last == IF p * s < Len(filtered) THEN p * s ELSE Len(filtered)
            count == IF last > first THEN last - first ELSE 0
        IN  /\ listing.response[1].users = [ k \in 1 .. count |-> filtered[first + k] ]
            /\ listing.response[1].hasNextPage = (p * s < Len(filtered))

====
